---- MODULE Spec2Model ----
(***************************************************************************)
(* Orchestration engine of the credit card recommendation pipeline:        *)
(* the LangGraph stage graph of src/src/graph/credit_card_graph.py and the *)
(* stages it wires together (extractor, router, card managers, online      *)
(* search, policy validation, error handler, summary).                     *)
(*                                                                         *)
(* Conventions of the model                                                *)
(*  - An Optional field is None (the empty tuple) or Some(v) (the tuple    *)
(*    <<v>>); an Optional[str] is the string NULL or the string itself.    *)
(*  - A text is a sequence of tokens; `word in text.lower()` is token      *)
(*    membership.                                                          *)
(*  - A float (a score, a confidence, a relevance) is an IEEE-754 double,  *)
(*    kept exactly as a pair of integers; float additions round as the     *)
(*    program's do.  Fees are in cents.                                    *)
(*  - A Python dict returned by a collaborator is a record with the field  *)
(*    `keys` (the keys that are present) and `bad` (the keys whose value   *)
(*    has a type the RequestParsed schema rejects).                        *)
(*  - A dict with string keys kept in the state is a set of <<key, value>> *)
(*    pairs; manager_results is a function over the keys stored so far.    *)
(*  - A node that awaits a collaborator after it has written to the state  *)
(*    (the extractor, a card manager) takes two steps: up to the awaited   *)
(*    call, and from the collaborator's answer on; `awaiting` holds in     *)
(*    between.  No other task of the program writes the state meanwhile.   *)
(***************************************************************************)
EXTENDS Integers, Sequences, FiniteSets, TLC

NULL == "null"

\* Optional values
None == <<>>
Some(v) == <<v>>
Val(o) == o[1]

\* ------------------------------------------------------------------ bounds
MaxGoals == 2

\* a caller of a category handler passes a state on which at most
\* MaxEarlierHandlers other handlers have run before
MaxEarlierHandlers == 1

\* the wall clock is followed for MaxClock ticks, TicksPerSecond ticks to a
\* second, and at most MaxSessions initial states are built
MaxClock == 4
TicksPerSecond == 2
MaxSessions == 3

\* ------------------------------------------------------------ vocabulary
GoalWords == {"miles", "cashback", "business", "student", "luxury"}

Texts == { <<>>, <<"miles">>, <<"cash back">>, <<"points", "no fee">>, <<"hello">> }

\* A locale or a jurisdiction is a str, kept as the sequence of its characters
en_SG == << "e", "n", "-", "S", "G" >>
en_US == << "e", "n", "-", "U", "S" >>
SG == << "S", "G" >>
US == << "U", "S" >>

Locales == {en_SG, en_US}

Managers == {"travel_manager", "cashback_manager", "business_manager",
             "student_manager", "general_manager"}

RECURSIVE SeqsUpTo(_, _)
SeqsUpTo(S, n) ==
    IF n = 0 THEN { <<>> }
    ELSE LET shorter == SeqsUpTo(S, n - 1)
         IN  shorter \cup { Append(s, x) : s \in { t \in shorter : Len(t) = n - 1 }, x \in S }

GoalLists == SeqsUpTo(GoalWords, MaxGoals)

Range(s) == { s[i] : i \in 1..Len(s) }

\* `word in text_lower`
TextHas(text, word) == word \in Range(text)

\* `any(g in goals for g in group)`
AnyIn(goals, group) == \E g \in group : g \in Range(goals)

Min(a, b) == IF a <= b THEN a ELSE b

\* ---------------------------------------------------------------- floats
\* A float of the program is an IEEE-754 double.  The model keeps a double d
\* with 0 <= d < 4 that is a multiple of 2^-58 exactly, as the pair
\* << hi, lo >> with d = (hi * Limb + lo) * 2^-58 and 0 <= lo < Limb.
Limb == 32768 * 32768

\* the spacing of the doubles of the binade of d, in units of 2^-58
fl_ulp(hi) ==
    CASE hi >= 4 * 268435456 -> 256
      [] hi >= 2 * 268435456 -> 128
      [] hi >= 268435456     -> 64
      [] hi >= 134217728     -> 32
      [] hi >= 67108864      -> 16
      [] hi >= 33554432      -> 8
      [] hi >= 16777216      -> 4
      [] hi >= 8388608       -> 2
      [] OTHER               -> 1

\* the double nearest to the exact value << hi, lo >>, a tie going to the
\* even mantissa
fl_round(hi, lo) ==
    LET u    == fl_ulp(hi)
        r    == lo % u
        odd  == (lo \div u) % 2 = 1
        up   == 2 * r > u \/ (2 * r = u /\ odd)
        lo2  == IF up THEN lo - r + u ELSE lo - r
    IN  IF lo2 = Limb THEN << hi + 1, 0 >> ELSE << hi, lo2 >>

\* a + b of two doubles
fl_add(a, b) ==
    LET lo == a[2] + b[2]
    IN  fl_round(a[1] + b[1] + (lo \div Limb), lo % Limb)

\* the rounding error of a + b: the exact sum minus the double fl_add gives,
\* in units of 2^-58 (a whole number of small magnitude, itself a double)
fl_add_error(a, b) ==
    LET lo  == (a[2] + b[2]) % Limb
        u   == fl_ulp(a[1] + b[1] + ((a[2] + b[2]) \div Limb))
        r   == lo % u
        odd == (lo \div u) % 2 = 1
        up  == 2 * r > u \/ (2 * r = u /\ odd)
    IN  IF up THEN r - u ELSE r

\* a + c of a double a and a small double c given in units of 2^-58
fl_add_small(a, c) ==
    LET lo == a[2] + c
    IN  IF lo < 0 THEN fl_round(a[1] - 1, lo + Limb)
        ELSE IF lo >= Limb THEN fl_round(a[1] + 1, lo - Limb)
        ELSE fl_round(a[1], lo)

\* a / n of a double a (0.0, or 2^-5 and above) and a len n of 1, 2 or 3: the
\* floor of the exact quotient by long division over 15-bit digits, then
\* rounded once with the remainder
fl_div(a, n) ==
    LET Digit == 32768
        hq  == a[1] \div n
        t1  == (a[1] % n) * Digit + (a[2] \div Digit)
        t0  == (t1 % n) * Digit + (a[2] % Digit)
        lo  == (t1 \div n) * Digit + (t0 \div n)
        rem == t0 % n
        u   == fl_ulp(hq)
        r   == lo % u
        odd == (lo \div u) % 2 = 1
        up  == 2 * (r * n + rem) > u * n \/ (2 * (r * n + rem) = u * n /\ odd)
        lo2 == IF up THEN lo - r + u ELSE lo - r
    IN  IF lo2 = Limb THEN << hq + 1, 0 >> ELSE << hq, lo2 >>

\* a <= b, a < b of two doubles
fl_le(a, b) == a[1] < b[1] \/ (a[1] = b[1] /\ a[2] <= b[2])
fl_lt(a, b) == a[1] < b[1] \/ (a[1] = b[1] /\ a[2] < b[2])

\* min(a, b) of two doubles
fl_min(a, b) == IF fl_le(a, b) THEN a ELSE b

\* x after n times `x += d`
RECURSIVE fl_add_times(_, _, _)
fl_add_times(x, d, n) == IF n = 0 THEN x ELSE fl_add_times(fl_add(x, d), d, n - 1)

\* ---------------------------------------------------------------- scores
\* the doubles of the literals 0.0, 1.0, 0.4, 0.3, 0.2, 0.1, 0.6 and 0.87
Zero      == << 0, 0 >>
One       == << 268435456, 0 >>
W_Goal    == << 107374182, 429496736 >>
W_Risk    == << 80530636, 858993456 >>
W_Horizon == << 53687091, 214748368 >>
W_Flex    == << 26843545, 644245096 >>
Boost10   == << 26843545, 644245096 >>
Boost20   == << 53687091, 214748368 >>
Boost30   == << 80530636, 858993456 >>
FallbackScore == << 161061273, 644245088 >>
Score087  == << 233538846, 773094112 >>

\* the doubles of the extractor's confidences 0.5 and 0.8
FallbackConfidence == << 134217728, 0 >>
DefaultConfidence  == << 214748364, 858993472 >>

\* (goal_matches / len(request.goals)) * 0.4 for k matches among n goals:
\* the double of the quotient times the double of 0.4, for n up to 4
goal_term(k, n) ==
    CASE k = 0         -> Zero
      [] k = n         -> W_Goal
      [] 2 * k = n     -> << 53687091, 214748368 >>
      [] 4 * k = n     -> << 26843545, 644245096 >>
      [] n = 3 /\ k = 1 -> << 35791394, 143165576 >>
      [] n = 3 /\ k = 2 -> << 71582788, 286331152 >>
      [] n = 4 /\ k = 3 -> << 80530636, 858993472 >>

\* =========================================================== extractor.py

\* locale.split("-")[-1]: what follows the last "-"
split_last(locale) ==
    LET i == CHOOSE k \in 1..Len(locale) :
                 locale[k] = "-" /\ \A j \in (k + 1)..Len(locale) : locale[j] # "-"
    IN  SubSeq(locale, i + 1, Len(locale))

\* _parse_jurisdiction_from_locale
_parse_jurisdiction_from_locale(locale) ==
    IF locale = <<>> THEN SG
    ELSE IF "-" \in Range(locale) THEN split_last(locale)
    ELSE IF Len(locale) = 2 THEN locale
    ELSE IF Len(locale) > 2
         THEN IF SubSeq(locale, 1, 2) = << "e", "n" >>
              THEN SubSeq(locale, 3, Len(locale))
              ELSE locale
    ELSE SG

\* The dict built at the end of _fallback_parsing
_fallback_parsing(text, locale) ==
    LET g1 == IF \E w \in {"miles", "travel", "airline"} : TextHas(text, w)
              THEN <<"miles", "travel">> ELSE <<>>
        g2 == IF \E w \in {"cashback", "cash back", "money"} : TextHas(text, w)
              THEN Append(g1, "cashback") ELSE g1
        g3 == IF \E w \in {"rewards", "points"} : TextHas(text, w)
              THEN Append(g2, "rewards") ELSE g2
        constraints == IF TextHas(text, "no fee") \/ TextHas(text, "no annual fee")
                       THEN { <<"annual_fee_max", 0>> } ELSE {}
    IN  [ isdict |-> TRUE,
          keys   |-> {"intent", "goals", "constraints", "jurisdiction",
                      "risk_tolerance", "time_horizon", "confidence"},
          bad    |-> {},
          intent |-> "recommend_card",
          goals  |-> IF g3 # <<>> THEN g3 ELSE <<"rewards">>,
          constraints    |-> constraints,
          priority       |-> <<>>,
          spend_focus    |-> {},
          jurisdiction   |-> _parse_jurisdiction_from_locale(locale),
          risk_tolerance |-> "standard",
          time_horizon   |-> "12m",
          confidence     |-> FallbackConfidence ]

\* A well-formed collaborator answer carrying the given fields
LLMDict(keys, bad, goals, risk, juris, prio, spend, cons, horizon) ==
    [ isdict |-> TRUE,
      keys   |-> keys,
      bad    |-> bad,
      intent |-> "recommend_card",
      goals  |-> goals,
      constraints    |-> cons,
      priority       |-> prio,
      spend_focus    |-> spend,
      jurisdiction   |-> juris,
      risk_tolerance |-> risk,
      time_horizon   |-> horizon,
      confidence     |-> Zero ]

\* What llm_tool.nlu_extract may hand back to the extractor: it raises, it
\* returns a dict, it returns a value that is no dict and does not support
\* `"confidence" not in value` followed by `value["confidence"] = 0.8`
\* ("nondict", e.g. None or an empty list), it returns the answer as text,
\* a str in which the word confidence occurs ("text"), or it returns
\* another value that is no dict and in which "confidence" occurs: a list,
\* a tuple, a set, a frozenset or the keys view of a dict.
LLMExtractDicts ==
    { LLMDict({"intent", "goals", "risk_tolerance"}, {}, g, r, <<>>, <<>>, {}, {}, "")
        : g \in GoalLists, r \in {"conservative", "standard", "aggressive"} }
    \cup
    { LLMDict({"intent", "goals"}, {}, g, "", <<>>, <<>>, {}, {}, "") : g \in GoalLists }
    \cup
    { LLMDict({"intent"}, {}, <<>>, "", <<>>, <<>>, {}, {}, ""),
      LLMDict({"goals"}, {}, <<"miles">>, "", <<>>, <<>>, {}, {}, ""),
      LLMDict({"intent", "goals"}, {"goals"}, <<>>, "", <<>>, <<>>, {}, {}, ""),
      LLMDict({"intent", "goals", "jurisdiction"}, {"jurisdiction"}, <<"miles">>, "", <<>>, <<>>, {}, {}, ""),
      LLMDict({"intent", "goals", "jurisdiction"}, {}, <<"miles">>, "", US, <<>>, {}, {}, ""),
      LLMDict({"intent", "goals", "jurisdiction"}, {}, <<"cashback">>, "", SG, <<>>, {}, {}, ""),
      LLMDict({"intent", "goals", "priority", "spend_focus"}, {}, <<"cashback">>, "", <<>>,
              <<"fees">>, { <<"dining", 1>> }, {}, ""),
      LLMDict({"intent", "goals", "priority", "spend_focus"}, {"spend_focus"}, <<"cashback">>, "", <<>>,
              <<"fees">>, {}, {}, ""),
      LLMDict({"intent", "goals", "constraints", "time_horizon"}, {}, <<"miles", "cashback">>, "", <<>>,
              <<>>, {}, { <<"annual_fee_max", 100>> }, "24m") }

LLMExtractOutcomes ==
    { [kind |-> "raise"], [kind |-> "nondict"], [kind |-> "text"] }
    \cup { [kind |-> k] : k \in {"list", "tuple", "set", "frozenset", "dict_keys"} }
    \cup { [kind |-> "dict", data |-> d] : d \in LLMExtractDicts }

\* _extract_structured_data: the collaborator's dict with a confidence, or
\* the keyword fallback when the call (or the use of its value) raises.  A
\* value that is no dict and in which "confidence" occurs passes the
\* membership test and is returned as it is; `type` is the name of its type.
_extract_structured_data(out, text, locale) ==
    CASE out.kind = "dict" ->
           IF "confidence" \in out.data.keys
           THEN out.data
           ELSE [out.data EXCEPT !.keys = @ \cup {"confidence"}, !.confidence = DefaultConfidence]
      [] out.kind = "text" -> [isdict |-> FALSE, type |-> "str"]
      [] out.kind \in {"list", "tuple", "set", "frozenset", "dict_keys"} ->
           [isdict |-> FALSE, type |-> out.kind]
      [] OTHER -> _fallback_parsing(text, locale)

\* RequestParsed(**parsed_data) accepts the dict
RequestParsedAccepts(d) ==
    /\ "intent" \in d.keys
    /\ "jurisdiction" \in d.keys
    /\ d.bad \cap {"intent", "constraints", "goals", "priority", "spend_focus",
                   "jurisdiction", "risk_tolerance", "must_have", "nice_to_have",
                   "time_horizon"} = {}

\* _validate_request with the consent-based filtering left out
consent_filter_Skipped(parsed_data, consent) == parsed_data

\* _validate_request, consent-based filtering: without the personalization
\* consent the keys spend_focus and priority are popped
consent_filter(parsed_data, consent) ==
    IF ~consent.personalization
    THEN [parsed_data EXCEPT !.keys = @ \ {"spend_focus", "priority"},
                             !.bad  = @ \ {"spend_focus", "priority"}]
    ELSE parsed_data

\* _validate_request with the jurisdiction override left out
jurisdiction_override_Skipped(parsed_data, expected_jurisdiction) == parsed_data

\* _validate_request, jurisdiction override: parsed_data.get("jurisdiction")
\* differs from the jurisdiction of the locale
jurisdiction_override(parsed_data, expected_jurisdiction) ==
    IF "jurisdiction" \notin parsed_data.keys \/ "jurisdiction" \in parsed_data.bad
       \/ parsed_data.jurisdiction # expected_jurisdiction
    THEN [parsed_data EXCEPT !.keys = @ \cup {"jurisdiction"},
                             !.bad  = @ \ {"jurisdiction"},
                             !.jurisdiction = expected_jurisdiction]
    ELSE parsed_data

\* _validate_request raises: parsed_data is no dict, so it has no
\* pop(key, default) and no get
_validate_request_raises(parsed_data) == ~parsed_data.isdict

\* str(e) of that exception: without the personalization consent
\* parsed_data.pop("spend_focus", None) raises (a TypeError of list.pop and
\* set.pop, which take no default; an AttributeError of a type without pop),
\* with it parsed_data.get("jurisdiction") raises an AttributeError
_validate_request_error(parsed_data, consent) ==
    IF ~consent.personalization
    THEN CASE parsed_data.type = "list" -> "pop expected at most 1 argument, got 2"
           [] parsed_data.type = "set"  -> "set.pop() takes no arguments (2 given)"
           [] OTHER -> "'" \o parsed_data.type \o "' object has no attribute 'pop'"
    ELSE "'" \o parsed_data.type \o "' object has no attribute 'get'"

\* _validate_request, up to the construction of the RequestParsed: the
\* parsed data after the consent filter and the jurisdiction override, with
\* the defaults of the fields RequestParsed fills in itself
validated_data(parsed_data, consent, locale) ==
    LET expected == _parse_jurisdiction_from_locale(locale)
        d1 == consent_filter(parsed_data, consent)
        d2 == jurisdiction_override(d1, expected)
        \* defaults for the keys that are absent
        OrDefault(k, present, default) == IF k \in d2.keys THEN present ELSE default
    IN  [ keys   |-> d2.keys \cup {"constraints", "goals", "priority", "spend_focus",
                                   "jurisdiction", "risk_tolerance", "must_have",
                                   "nice_to_have", "time_horizon"},
          bad    |-> d2.bad,
          intent |-> d2.intent,
          goals          |-> OrDefault("goals", d2.goals, <<"rewards">>),
          constraints    |-> OrDefault("constraints", d2.constraints, {}),
          priority       |-> OrDefault("priority", d2.priority, <<>>),
          spend_focus    |-> OrDefault("spend_focus", d2.spend_focus, {}),
          jurisdiction   |-> OrDefault("jurisdiction", d2.jurisdiction, expected),
          risk_tolerance |-> OrDefault("risk_tolerance", d2.risk_tolerance, "standard"),
          time_horizon   |-> OrDefault("time_horizon", d2.time_horizon, "12m") ]

\* _validate_request
_validate_request(parsed_data, consent, locale) ==
    LET expected == _parse_jurisdiction_from_locale(locale)
        d3 == validated_data(parsed_data, consent, locale)
    IN  IF RequestParsedAccepts(d3)
        THEN [ intent |-> d3.intent,
               constraints    |-> d3.constraints,
               goals          |-> d3.goals,
               priority       |-> d3.priority,
               spend_focus    |-> d3.spend_focus,
               jurisdiction   |-> d3.jurisdiction,
               risk_tolerance |-> d3.risk_tolerance,
               must_have      |-> <<>>,
               nice_to_have   |-> <<>>,
               time_horizon   |-> d3.time_horizon ]
        ELSE [ intent |-> "recommend_card",
               constraints    |-> {},
               goals          |-> <<"rewards">>,
               priority       |-> <<>>,
               spend_focus    |-> {},
               jurisdiction   |-> expected,
               risk_tolerance |-> "standard",
               must_have      |-> <<>>,
               nice_to_have   |-> <<>>,
               time_horizon   |-> "12m" ]

\* =================================================== credit_card_graph.py

\* _determine_manager_categories without the general manager as the default
_determine_manager_categories_NoDefault(request) ==
    LET goals == request.goals
    IN  (IF AnyIn(goals, {"miles", "travel", "airline", "hotel"})
         THEN <<"travel_manager">> ELSE <<>>)
        \o (IF AnyIn(goals, {"cashback", "cash", "rewards", "money"})
            THEN <<"cashback_manager">> ELSE <<>>)
        \o (IF AnyIn(goals, {"business", "corporate", "expense", "employee"})
            THEN <<"business_manager">> ELSE <<>>)
        \o (IF AnyIn(goals, {"student", "building_credit", "first", "college"})
            THEN <<"student_manager">> ELSE <<>>)

\* _determine_manager_categories with the cashback group tested first
_determine_manager_categories_CashbackFirst(request) ==
    LET goals == request.goals
        plan == (IF AnyIn(goals, {"cashback", "cash", "rewards", "money"})
                 THEN <<"cashback_manager">> ELSE <<>>)
                \o (IF AnyIn(goals, {"miles", "travel", "airline", "hotel"})
                    THEN <<"travel_manager">> ELSE <<>>)
                \o (IF AnyIn(goals, {"business", "corporate", "expense", "employee"})
                    THEN <<"business_manager">> ELSE <<>>)
                \o (IF AnyIn(goals, {"student", "building_credit", "first", "college"})
                    THEN <<"student_manager">> ELSE <<>>)
    IN  IF plan = <<>> THEN <<"general_manager">> ELSE plan

\* _determine_manager_categories
_determine_manager_categories(request) ==
    LET goals == request.goals
        c1 == IF AnyIn(goals, {"miles", "travel", "airline", "hotel"})
              THEN <<"travel_manager">> ELSE <<>>
        c2 == IF AnyIn(goals, {"cashback", "cash", "rewards", "money"})
              THEN Append(c1, "cashback_manager") ELSE c1
        c3 == IF AnyIn(goals, {"business", "corporate", "expense", "employee"})
              THEN Append(c2, "business_manager") ELSE c2
        c4 == IF AnyIn(goals, {"student", "building_credit", "first", "college"})
              THEN Append(c3, "student_manager") ELSE c3
    IN  IF c4 = <<>> THEN <<"general_manager">> ELSE c4


\* ========================================================= mock_tools.py

\* A catalog record.  `words` is the set of goal words that occur in
\* str(card).lower(); `nofx` is "no foreign transaction fee" in that text;
\* `pct` is "%" in rewards_rate; `wellformed` is FALSE for a record that
\* lacks one of the keys rank_cards reads.
Card(id, name, type, fee, words, nofx, pct) ==
    [ card_id |-> id, card_name |-> name, card_type |-> type, annual_fee |-> fee,
      words |-> words, nofx |-> nofx, pct |-> pct, wellformed |-> TRUE ]

travel_001   == Card("travel_001", "Singapore Airlines KrisFlyer Credit Card", "travel", 19260,
                     {"miles", "travel", "airline", "cashback", "cash", "rewards"}, TRUE, FALSE)
travel_002   == Card("travel_002", "Citi PremierMiles Card", "travel", 19260,
                     {"miles", "travel", "rewards"}, FALSE, FALSE)
cashback_001 == Card("cashback_001", "DBS Live Fresh Card", "cashback", 0,
                     {"cashback", "cash", "rewards"}, FALSE, TRUE)
cashback_002 == Card("cashback_002", "OCBC 365 Credit Card", "cashback", 0,
                     {"cashback", "cash", "rewards"}, FALSE, TRUE)
business_001 == Card("business_001", "UOB Business Card", "business", 9630,
                     {"cashback", "cash", "rewards", "business", "corporate", "expense", "employee"},
                     FALSE, TRUE)
student_001  == Card("student_001", "POSB Everyday Card", "student", 0,
                     {"cashback", "cash", "rewards", "student"}, FALSE, TRUE)
general_001  == Card("general_001", "Standard Rewards Card", "rewards", 4815,
                     {"cashback", "cash", "rewards"}, FALSE, TRUE)

\* A record of the wrong shape, as an arbitrary catalog collaborator may return
broken_card  == [ Card("broken_001", "Broken", "rewards", 0, {}, FALSE, FALSE)
                    EXCEPT !.wellformed = FALSE ]

\* s[:n]
Take(s, n) == SubSeq(s, 1, Min(n, Len(s)))

\* MockCatalogTool.search_cards
search_cards(criteria) ==
    LET goals == criteria.goals
        t == IF AnyIn(goals, {"miles", "travel", "airline"})
             THEN <<travel_001, travel_002>> ELSE <<>>
        c == IF AnyIn(goals, {"cashback", "rewards"})
             THEN t \o <<cashback_001, cashback_002>> ELSE t
        b == IF AnyIn(goals, {"business", "corporate"})
             THEN Append(c, business_001) ELSE c
        s == IF AnyIn(goals, {"student", "building_credit"})
             THEN Append(b, student_001) ELSE b
        all == IF s = <<>> THEN <<general_001>> ELSE s
        Le50(card)  == card.annual_fee <= 5000
        Le200(card) == card.annual_fee <= 20000
        kept == CASE criteria.risk_tolerance = "conservative" -> SelectSeq(all, Le50)
                  [] criteria.risk_tolerance = "standard"     -> SelectSeq(all, Le200)
                  [] OTHER -> all
    IN  Take(kept, 5)

\* ======================================================= card_managers.py

\* BaseCardManager._get_mock_cards
_get_mock_cards ==
    << Card("mock_001", "Mock Premium Card", "rewards", 9500, {"rewards", "points"}, FALSE, TRUE) >>

\* What catalog_tool.search_cards does when a manager calls it
CatalogOutcomes == {"ok", "raise", "malformed"}

\* What llm_tool.nlu_extract does when a manager asks for its analysis
AnalysisOutcomes == {"ok", "raise", "nondict"}

\* search_catalog with the fallback lost: an empty list when the collaborator raises
search_catalog_NoFallback(outcome, criteria) ==
    CASE outcome = "raise"     -> <<>>
      [] outcome = "malformed" -> <<broken_card>>
      [] OTHER                 -> search_cards(criteria)

\* BaseCardManager.search_catalog: the collaborator's list, or the mock
\* cards when the collaborator raises
search_catalog(outcome, criteria) ==
    CASE outcome = "raise"     -> _get_mock_cards
      [] outcome = "malformed" -> <<broken_card>>
      [] OTHER                 -> search_cards(criteria)

\* BaseCardManager.analyze_request and its overrides: TRUE when the call
\* returns, FALSE when it raises.  The base method catches the
\* collaborator's exception; every override then assigns a key of the
\* analysis, which raises when the collaborator returned no dict.
analyze_request_returns(outcome) == outcome # "nondict"

\* number of goals g (with repetitions) with g.lower() in str(card).lower()
RECURSIVE goal_matches(_, _)
goal_matches(goals, card) ==
    IF goals = <<>> THEN 0
    ELSE (IF Head(goals) \in card.words THEN 1 ELSE 0) + goal_matches(Tail(goals), card)

\* BaseCardManager._calculate_match_score
base_match_score(card, request) ==
    LET goal == IF request.goals # <<>>
                THEN goal_term(goal_matches(request.goals, card), Len(request.goals))
                ELSE Zero
        risk == CASE request.risk_tolerance = "conservative" /\ card.annual_fee <= 5000 -> W_Risk
                  [] request.risk_tolerance = "standard" /\ card.annual_fee <= 15000    -> W_Risk
                  [] request.risk_tolerance = "aggressive"                               -> W_Risk
                  [] OTHER -> Zero
        \* the key 'signup_bonus' is part of str(card) for every catalog record
        horizon == IF request.time_horizon = "12m" THEN W_Horizon ELSE Zero
        flex == IF request.constraints = {} THEN W_Flex ELSE Zero
        \* score = 0.0, then one `score +=` after another
    IN  fl_min(fl_add(fl_add(fl_add(fl_add(Zero, goal), risk), horizon), flex), One)

\* `if condition: base_score += amount`
bonus(base_score, condition, amount) ==
    IF condition THEN fl_add(base_score, amount) ELSE base_score

\* _calculate_match_score of the manager classes without the cap on the
\* score with its bonus terms
_calculate_match_score_Uncapped(m, card, request) ==
    LET base == base_match_score(card, request)
    IN  CASE m = "travel_manager" ->
               bonus(bonus(base, card.words \cap {"miles", "airline", "travel"} # {}, Boost20),
                     card.nofx, Boost10)
          [] m = "cashback_manager" ->
               bonus(bonus(base, "cashback" \in card.words, Boost20), card.pct, Boost10)
          [] m = "student_manager" ->
               bonus(bonus(base, card.words \cap {"student", "first"} # {}, Boost30),
                     card.annual_fee <= 0, Boost20)
          [] OTHER -> base

\* _calculate_match_score of the manager class registered under m
_calculate_match_score(m, card, request) ==
    LET base == base_match_score(card, request)
    IN  CASE m = "travel_manager" ->
               fl_min(bonus(bonus(base, card.words \cap {"miles", "airline", "travel"} # {},
                                  Boost20),
                            card.nofx, Boost10), One)
          [] m = "cashback_manager" ->
               fl_min(bonus(bonus(base, "cashback" \in card.words, Boost20), card.pct, Boost10),
                      One)
          [] m = "student_manager" ->
               fl_min(bonus(bonus(base, card.words \cap {"student", "first"} # {}, Boost30),
                            card.annual_fee <= 0, Boost20), One)
          [] OTHER -> base

\* list.sort(key=..., reverse=True) on a sequence of <<key, item>> pairs with
\* doubles for keys: stable, highest key first
RECURSIVE InsertDesc(_, _)
InsertDesc(sorted, x) ==
    IF sorted = <<>> THEN <<x>>
    ELSE IF fl_le(x[1], Head(sorted)[1])
         THEN <<Head(sorted)>> \o InsertDesc(Tail(sorted), x)
         ELSE <<x>> \o sorted

RECURSIVE SortDescPairs(_)
SortDescPairs(s) ==
    IF s = <<>> THEN <<>>
    ELSE InsertDesc(SortDescPairs(SubSeq(s, 1, Len(s) - 1)), s[Len(s)])

\* CardRecommendation built in rank_cards
CardRecommendation(m, card, request) ==
    [ card_id |-> card.card_id, card_name |-> card.card_name, card_type |-> card.card_type,
      annual_fee |-> card.annual_fee, words |-> card.words, nofx |-> card.nofx,
      pct |-> card.pct, match_score |-> _calculate_match_score(m, card, request) ]

\* BaseCardManager.rank_cards raises (KeyError) on a record of the wrong shape
rank_cards_raises(cards) == \E i \in 1..Len(cards) : ~cards[i].wellformed

\* BaseCardManager.rank_cards without its sort
rank_cards_Unsorted(m, cards, request) ==
    [ i \in 1..Len(cards) |-> CardRecommendation(m, cards[i], request) ]

\* BaseCardManager.rank_cards
rank_cards(m, cards, request) ==
    LET recs   == [ i \in 1..Len(cards) |-> CardRecommendation(m, cards[i], request) ]
        sorted == SortDescPairs([ i \in 1..Len(recs) |-> <<recs[i].match_score, recs[i]>> ])
    IN  [ i \in 1..Len(sorted) |-> sorted[i][2] ]

\* The ManagerResult built in BaseCardManager.execute
ManagerResult(m, raw_cards, request) ==
    LET result(top_recommendations) ==
          [ manager_type |-> m,
            recommendations |-> top_recommendations,
            total_cards_found |-> Len(raw_cards),
            best_match |-> IF top_recommendations # <<>> THEN Some(top_recommendations[1])
                           ELSE None ]
    IN  result(Take(rank_cards(m, raw_cards, request), 3))

\* search_criteria of BaseCardManager.execute
search_criteria(req) ==
    [ goals |-> req.goals, risk_tolerance |-> req.risk_tolerance,
      constraints |-> req.constraints, jurisdiction |-> req.jurisdiction ]

\* The try block of BaseCardManager.execute raises
manager_raises(req, analysis, catalog) ==
    \/ req = None
    \/ ~analyze_request_returns(analysis)
    \/ rank_cards_raises(search_catalog(catalog, search_criteria(Val(req))))


\* ============================================================== state.py

\* The fields GraphState declares.  GraphState is a pydantic BaseModel with
\* the default configuration, so assigning an attribute that is not one of
\* them raises ValueError ('"GraphState" object has no field ...').
GraphStateFields ==
    {"session_id", "user_query", "locale", "consent", "request", "policy_pack",
     "catalog_meta", "fanout_plan", "manager_results", "final_recommendations",
     "telemetry", "errors", "current_node", "completed_nodes", "next_nodes"}

\* `state.<name> = value` raises
setattr_raises(name) == name \notin GraphStateFields

\* An entry of state.errors; `type` is "absent" when the dict has no such key
ErrorRecord(node, error, type) == [node |-> node, error |-> error, type |-> type]

\* An insertion-ordered dict as a sequence of <<key, value>> pairs
DictKeys(d) == { d[i][1] : i \in 1..Len(d) }
DictGet(d, k) == d[CHOOSE i \in 1..Len(d) : d[i][1] = k][2]
DictSet(d, k, v) ==
    IF k \in DictKeys(d)
    THEN [ i \in 1..Len(d) |-> IF d[i][1] = k THEN <<k, v>> ELSE d[i] ]
    ELSE Append(d, <<k, v>>)

\* ======================================================= error_handler.py

\* ErrorHandlerNode.generate_fallback_recommendations
generate_fallback_recommendations(request) ==
    << [ card_id |-> "fallback_001", card_name |-> "Standard Rewards Card",
         card_type |-> "rewards", annual_fee |-> 4900, match_score |-> FallbackScore ] >>

\* ErrorHandlerNode.can_continue_execution
can_continue_execution(errs) == TRUE

\* The ErrorHandlingResult that ErrorHandlerNode.execute builds
ErrorHandlingResult(errs, req) ==
    LET can_continue == can_continue_execution(errs)
    IN  [ errors_handled |-> Len(errs),
          can_continue   |-> can_continue,
          fallback_recommendations |->
              IF can_continue /\ req # None
              THEN generate_fallback_recommendations(Val(req))
              ELSE <<>> ]

\* ============================================================= summary.py

\* hasattr(manager_result, 'recommendations'): a ManagerResult has the
\* attribute, a plain dict (with whatever keys) has not
has_recommendations(manager_result) == "recommendations" \in DOMAIN manager_result

\* the recommendations of all results of the map, one result after another
RECURSIVE FlattenRecs(_)
FlattenRecs(mr) ==
    IF mr = <<>> THEN <<>>
    ELSE Head(mr)[2].recommendations \o FlattenRecs(Tail(mr))

\* SummaryAgent.aggregate_manager_results raises: `manager_result.recommendations`
\* on a value without that attribute
aggregate_raises(mr) == \E i \in 1..Len(mr) : ~has_recommendations(mr[i][2])

\* SummaryAgent.aggregate_manager_results
aggregate_manager_results(mr) == FlattenRecs(mr)

\* number of entries of the result map's recommendation lists with this id
RECURSIVE CountId(_, _)
CountId(recs, id) ==
    IF recs = <<>> THEN 0
    ELSE (IF Head(recs).card_id = id THEN 1 ELSE 0) + CountId(Tail(recs), id)

\* SummaryAgent.calculate_overall_score
calculate_overall_score(card, mr) ==
    fl_min(fl_add_times(card.match_score, Boost10, CountId(FlattenRecs(mr), card.card_id)),
           One)

\* the manager_scores dict of a FinalRecommendation: for every manager that
\* lists the card, the score of its last entry with that id
manager_scores(card, mr) ==
    LET Hits(i) == { j \in 1..Len(mr[i][2].recommendations) :
                       mr[i][2].recommendations[j].card_id = card.card_id }
        Last(i) == CHOOSE j \in Hits(i) : \A k \in Hits(i) : k <= j
    IN  { <<mr[i][1], mr[i][2].recommendations[Last(i)].match_score>> :
            i \in { n \in 1..Len(mr) : Hits(n) # {} } }

\* The FinalRecommendation built for one card of the pool
FinalRecommendation(card, mr) ==
    [ card_id |-> card.card_id, card_name |-> card.card_name, card_type |-> card.card_type,
      annual_fee |-> card.annual_fee,
      overall_score  |-> calculate_overall_score(card, mr),
      manager_scores |-> manager_scores(card, mr) ]

\* SummaryAgent.create_final_recommendations without its sort
create_final_recommendations_Unsorted(all_cards, mr) ==
    [ i \in 1..Len(all_cards) |-> FinalRecommendation(all_cards[i], mr) ]

\* SummaryAgent.create_final_recommendations
create_final_recommendations(all_cards, mr) ==
    LET finals == [ i \in 1..Len(all_cards) |-> FinalRecommendation(all_cards[i], mr) ]
        sorted == SortDescPairs([ i \in 1..Len(finals) |-> <<finals[i].overall_score, finals[i]>> ])
    IN  [ i \in 1..Len(sorted) |-> sorted[i][2] ]

\* The builtin sum() of the interpreter that runs the program, which the
\* repository does not fix: up to CPython 3.11 it adds floats one after
\* another, from CPython 3.12 on it adds them with a compensated sum
SumBuiltins == {"plain", "compensated"}

\* sum() up to CPython 3.11: the scores added one after another, from the left
RECURSIVE sum_plain(_)
sum_plain(scores) ==
    IF scores = <<>> THEN Zero
    ELSE fl_add(sum_plain(SubSeq(scores, 1, Len(scores) - 1)), scores[Len(scores)])

\* sum() from CPython 3.12 on, the running pair (f_result, c): f_result is
\* the plain sum and c collects the rounding errors of its additions
RECURSIVE sum_compensation(_)
sum_compensation(scores) ==
    IF Len(scores) <= 1 THEN 0
    ELSE LET front == SubSeq(scores, 1, Len(scores) - 1)
         IN  sum_compensation(front) + fl_add_error(sum_plain(front), scores[Len(scores)])

\* sum() from CPython 3.12 on: f_result + c when c is not zero
sum_compensated(scores) ==
    IF sum_compensation(scores) # 0
    THEN fl_add_small(sum_plain(scores), sum_compensation(scores))
    ELSE sum_plain(scores)

\* sum(top_scores) taking the first score only
SumScores_HeadOnly(recs, sum_builtin) ==
    IF recs = <<>> THEN Zero ELSE Head(recs).overall_score

\* sum(top_scores) for top_scores = [rec.overall_score for rec in recs]
SumScores(recs, sum_builtin) ==
    LET top_scores == [ i \in 1..Len(recs) |-> recs[i].overall_score ]
    IN  IF sum_builtin = "plain" THEN sum_plain(top_scores) ELSE sum_compensated(top_scores)

\* The SummaryResult for an empty result map or an empty pool
EmptySummaryResult(text) ==
    [ total_cards_analyzed |-> 0,
      final_recommendations |-> <<>>,
      top_recommendation |-> None,
      summary_text |-> text,
      confidence_score |-> Zero ]

\* The SummaryResult that SummaryAgent.execute stores when nothing raises
SummaryResult(mr, sum_builtin) ==
    LET all_cards == aggregate_manager_results(mr)
        finals    == create_final_recommendations(all_cards, mr)
        top3      == Take(finals, 3)
    IN  IF mr = <<>>
        THEN EmptySummaryResult("No card manager results available for summarization.")
        ELSE IF all_cards = <<>>
        THEN EmptySummaryResult("No credit card recommendations found from managers.")
        ELSE [ total_cards_analyzed |-> Len(all_cards),
               final_recommendations |-> finals,
               top_recommendation |-> Some(finals[1]),
               summary_text |-> "top recommendation",
               confidence_score |-> fl_div(SumScores(top3, sum_builtin), Len(top3)) ]

\* The try block of SummaryAgent.execute raises: aggregate_manager_results
\* does, or generate_summary_text reads request.goals
summary_raises(mr, req) ==
    \/ aggregate_raises(mr)
    \/ /\ aggregate_manager_results(mr) # <<>>
       /\ req = None

\* =================================================== credit_card_graph.py

END == "end"

\* _should_continue_to_router looking at state.request before state.errors
_should_continue_to_router_RequestFirst(errs, req) ==
    IF req # None THEN "router"
    ELSE IF errs # <<>> THEN "error_handler"
    ELSE END

\* _should_continue_to_router
_should_continue_to_router(errs, req) ==
    IF errs # <<>> THEN "error_handler"
    ELSE IF req # None THEN "router"
    ELSE END

\* _should_continue_to_managers without its check of state.errors
_should_continue_to_managers_IgnoringErrors(errs, plan) ==
    IF plan # None /\ Val(plan) # <<>> THEN Val(plan)[1]
    ELSE "general_manager"

\* _should_continue_to_managers returning the last entry of the plan
_should_continue_to_managers_LastOfPlan(errs, plan) ==
    IF errs # <<>> THEN "error_handler"
    ELSE IF plan # None /\ Val(plan) # <<>> THEN Val(plan)[Len(Val(plan))]
    ELSE "general_manager"

\* _should_continue_to_managers
_should_continue_to_managers(errs, plan) ==
    IF errs # <<>> THEN "error_handler"
    ELSE IF plan # None /\ Val(plan) # <<>> THEN Val(plan)[1]
    ELSE "general_manager"

\* ================================================================= state

VARIABLES
    user_query,            \* GraphState.user_query
    locale,                \* GraphState.locale
    consent,               \* GraphState.consent
    request,               \* GraphState.request
    fanout_plan,           \* GraphState.fanout_plan
    manager_results,       \* GraphState.manager_results
    final_recommendations, \* GraphState.final_recommendations
    telemetry,             \* GraphState.telemetry["events"], by event name
    errors,                \* GraphState.errors
    current_node,          \* GraphState.current_node
    completed_nodes,       \* GraphState.completed_nodes
    next_nodes,            \* GraphState.next_nodes
    extra_attrs,           \* attributes set on the state beyond the declared fields
    pc,                    \* the stage the graph runs next, END, or "aborted"
                           \* when a stage's exception left the run
    entry,                 \* the stage at which this run entered the graph
    collab,                \* what the collaborators did in this run so far
                           \* (llm_out: what nlu_extract handed to the extractor)
    error_result,          \* the ErrorHandlingResult the error handler built, if it ran
    awaiting,              \* the node at pc has run up to the collaborator call it
                           \* awaits (`await llm_tool.nlu_extract`) and not beyond
    clock,                 \* time.time(), in ticks
    sessions               \* the initial states create_initial_state has built so far

vars == << user_query, locale, consent, request, fanout_plan, manager_results,
           final_recommendations, telemetry, errors, current_node,
           completed_nodes, next_nodes, extra_attrs, pc, entry, collab,
           error_result, awaiting, clock, sessions >>

\* the state of one graph run
runVars == << user_query, locale, consent, request, fanout_plan, manager_results,
              final_recommendations, telemetry, errors, current_node,
              completed_nodes, next_nodes, extra_attrs, pc, entry, collab,
              error_result, awaiting >>

\* the clock and the initial states built from it
sessionVars == << clock, sessions >>

inputs == << user_query, locale, consent, entry >>

\* An error a caller may pass in with the state it builds
PriorError == ErrorRecord("extractor", "Test error", "absent")

\* A request a caller may pass in with the state it builds
PresetRequests ==
    { _validate_request(LLMDict({"intent", "goals"}, {}, g, "", <<>>, <<>>, {}, {}, ""),
                        [personalization |-> TRUE], en_SG)
        : g \in { <<"miles", "travel">>, <<"student">>, <<"miles", "cashback">>,
                  <<"miles", "student">> } }

Consents == { [personalization |-> p, data_sharing |-> FALSE, credit_pull |-> "none"]
                : p \in BOOLEAN }

\* A CardRecommendation a caller writes down with a score of its own
ScoredRecommendation(m, card, req, score) ==
    [CardRecommendation(m, card, req) EXCEPT !.match_score = score]

\* The result map after two handlers both ran on the request
TwoHandlerResults(m1, m2, r) ==
    << <<m1, ManagerResult(m1, search_cards(search_criteria(r)), r)>>,
       <<m2, ManagerResult(m2, search_cards(search_criteria(r)), r)>> >>

\* The result map after the handlers ms, each a different one, ran on the
\* request one after another: each stored its result under its own key
HandlerResults(ms, r) ==
    [ i \in 1..Len(ms) |->
        << ms[i], ManagerResult(ms[i], search_cards(search_criteria(r)), r) >> ]

\* Result maps a caller of the handler m may pass in with the state it
\* builds: the map of a state on which other handlers ran before
EarlierHandlerResults(m, req) ==
    IF req = None THEN {<<>>}
    ELSE { HandlerResults(ms, Val(req)) :
             ms \in { s \in SeqsUpTo(Managers \ {m}, MaxEarlierHandlers) :
                        \A i, j \in 1..Len(s) : i # j => s[i] # s[j] } }

\* Result maps a caller of the summary stage may pass in with the state it
\* builds: the results of both handlers of a request with a plan of two
\* categories, and a map written by hand (one travel card scored 0.87, one
\* cashback card scored 1.00)
PresetResultMaps ==
    { TwoHandlerResults(_determine_manager_categories(r)[1],
                        _determine_manager_categories(r)[2], r)
        : r \in { q \in PresetRequests : Len(_determine_manager_categories(q)) = 2 } }
    \cup
    { << <<"travel_manager",
           [ manager_type |-> "travel_manager",
             recommendations |-> << ScoredRecommendation("travel_manager", travel_001, r, Score087) >>,
             total_cards_found |-> 1,
             best_match |-> None ]>>,
         <<"cashback_manager",
           [ manager_type |-> "cashback_manager",
             recommendations |-> << ScoredRecommendation("cashback_manager", cashback_001, r, One) >>,
             total_cards_found |-> 1,
             best_match |-> None ]>> >> : r \in PresetRequests }

\* The result map a caller of the online search passes in with the state it
\* builds: under travel_manager a plain dict, written by hand, and no
\* ManagerResult
EarlierResultMap ==
    << <<"travel_manager",
         [ dict |-> << <<"recommendations",
                         << [ dict |-> << <<"card_name",
                                            "Singapore Airlines KrisFlyer Credit Card">>,
                                          <<"card_id", "travel_001">> >> ] >> >> >> ]>> >>

\* The stages at which a run may enter: the entry point of the compiled
\* graph, or a stage called directly on a state the caller built
EntryStages == {"extractor", "router", "error_handler", "summary", "online_search",
                "policy_validation"} \cup Managers

\* create_initial_state gives the state of a pipeline run (entry "extractor",
\* no request, no errors); a caller of a single stage builds the GraphState
\* itself and may preset request and errors, and for the summary stage, the
\* online search and a category handler the result map.  The states built
\* for a category handler, the online search and the policy validation have
\* the locale en-SG and no errors.
Init ==
    /\ entry \in EntryStages
    /\ user_query \in Texts
    /\ locale \in (IF entry \in Managers \cup {"online_search", "policy_validation"}
                    THEN {en_SG} ELSE Locales)
    /\ consent \in Consents
    /\ request \in (IF entry = "extractor" THEN {None}
                     ELSE {None} \cup { Some(r) : r \in PresetRequests })
    /\ errors \in (IF entry \in Managers \cup {"online_search", "policy_validation"}
                    THEN { <<>> } ELSE { <<>>, <<PriorError>> })
    /\ fanout_plan = None
    /\ manager_results \in (IF entry = "summary" THEN {<<>>} \cup PresetResultMaps
                             ELSE IF entry = "online_search" THEN {<<>>, EarlierResultMap}
                             ELSE IF entry \in Managers
                             THEN EarlierHandlerResults(entry, request)
                             ELSE {<<>>})
    /\ final_recommendations = None
    /\ telemetry = <<>>
    /\ current_node = NULL
    /\ completed_nodes = <<>>
    /\ next_nodes = <<>>
    /\ extra_attrs = <<>>
    /\ pc = entry
    /\ collab = [llm |-> "none", llm_out |-> [kind |-> "none"],
                 analysis |-> "none", catalog |-> "none", policy |-> "none"]
    /\ error_result = None
    /\ awaiting = FALSE
    /\ clock = 0
    /\ sessions = <<>>


\* The edges with the managers wired straight to the summary
GraphEdge_SkippingEnrichment(node) ==
    CASE node \in Managers           -> "summary"
      [] node = "online_search"      -> "policy_validation"
      [] node = "policy_validation"  -> "summary"
      [] node = "error_handler"      -> "summary"
      [] node = "summary"            -> END

\* The edges with policy_validation wired back to online_search
GraphEdge_LoopingBack(node) ==
    CASE node \in Managers           -> "online_search"
      [] node = "online_search"      -> "policy_validation"
      [] node = "policy_validation"  -> "online_search"
      [] node = "error_handler"      -> "summary"
      [] node = "summary"            -> END

\* The edges added with workflow.add_edge
GraphEdge(node) ==
    CASE node \in Managers           -> "online_search"
      [] node = "online_search"      -> "policy_validation"
      [] node = "policy_validation"  -> "summary"
      [] node = "error_handler"      -> "summary"
      [] node = "summary"            -> END

\* A stage's exception leaves the node: the graph run stops with it
NodeRaised == "aborted"

\* =============================================================== stages

\* extractor_node with its check of the raw text left out
no_raw_text_Never(raw_text) == FALSE

\* extractor_node: `not raw_text`
no_raw_text(raw_text) == raw_text = <<>>

\* The record of the except branch without the name of the node
extractor_error_info_Unnamed(message) == ErrorRecord(NULL, message, "absent")

\* The record the except branch of extractor_node appends: str(e) under node extractor
extractor_error_info(message) == ErrorRecord("extractor", message, "absent")

\* The update of the telemetry events with no event added
extractor_telemetry_Silent(events) == events

\* state.telemetry["events"] = state.telemetry.get("events", []) + [the extractor.ok event]
extractor_telemetry(events) == Append(events, "extractor.ok")

\* extractor_node
Extractor ==
    /\ pc = "extractor"
    /\ UNCHANGED sessionVars
    /\ IF ~awaiting
       THEN \* up to `await llm_tool.nlu_extract(...)`
            /\ current_node' = "extractor"
            /\ IF no_raw_text(user_query)
               THEN \* ValueError("No user query provided"), recorded and raised again
                    /\ errors' = Append(errors, extractor_error_info("No user query provided"))
                    /\ next_nodes' = <<"error_handler">>
                    /\ pc' = NodeRaised
                    /\ UNCHANGED awaiting
               ELSE \* the node waits for the collaborator's answer
                    /\ awaiting' = TRUE
                    /\ UNCHANGED << errors, next_nodes, pc >>
            /\ UNCHANGED << request, telemetry, completed_nodes, collab >>
       ELSE \* from the collaborator's answer on
            /\ awaiting' = FALSE
            /\ \E out \in LLMExtractOutcomes :
                 LET parsed_request    == _extract_structured_data(out, user_query, locale)
                     validated_request == _validate_request(parsed_request, consent, locale)
                 IN  /\ collab' = [collab EXCEPT !.llm = out.kind, !.llm_out = out]
                     /\ IF _validate_request_raises(parsed_request)
                        THEN \* the exception of _validate_request, recorded and raised again
                             /\ errors' = Append(errors,
                                                 extractor_error_info(
                                                     _validate_request_error(parsed_request,
                                                                             consent)))
                             /\ next_nodes' = <<"error_handler">>
                             /\ pc' = NodeRaised
                             /\ UNCHANGED << request, telemetry, completed_nodes >>
                        ELSE /\ request' = Some(validated_request)
                             /\ telemetry' = extractor_telemetry(telemetry)
                             /\ completed_nodes' = Append(completed_nodes, "extractor")
                             /\ next_nodes' = <<"router">>
                             /\ pc' = _should_continue_to_router(errors,
                                                                 Some(validated_request))
                             /\ UNCHANGED errors
            /\ UNCHANGED current_node
    /\ UNCHANGED << inputs, fanout_plan, manager_results, final_recommendations, extra_attrs,
                    error_result >>

\* router_node
Router ==
    /\ pc = "router"
    /\ UNCHANGED << sessionVars, awaiting >>
    /\ current_node' = "router"
    /\ completed_nodes' = Append(completed_nodes, "router")
    /\ IF request = None
       THEN /\ errors' = Append(errors,
                                ErrorRecord("router", "No parsed request available", "absent"))
            /\ next_nodes' = <<"error_handler">>
            /\ UNCHANGED fanout_plan
       ELSE LET manager_categories == _determine_manager_categories(Val(request))
            IN  /\ fanout_plan' = Some(manager_categories)
                /\ next_nodes' = IF manager_categories # <<>> THEN manager_categories
                                 ELSE <<"general_manager">>
                /\ UNCHANGED errors
    /\ pc' = _should_continue_to_managers(errors', fanout_plan')
    /\ UNCHANGED << inputs, request, manager_results, final_recommendations, telemetry,
                    extra_attrs, collab, error_result >>

\* BaseCardManager.execute assigning a fresh map with its own key to
\* state.manager_results
Manager_FreshMap(m) ==
    /\ pc = m
    /\ UNCHANGED sessionVars
    /\ IF ~awaiting
       THEN \* up to `await self.llm_tool.nlu_extract(...)` in analyze_request
            /\ current_node' = m
            /\ completed_nodes' = Append(completed_nodes, m)
            /\ IF request = None
               THEN \* analyze_request raises on request.goals before it calls the
                    \* collaborator: the except branch
                    /\ errors' = Append(errors, ErrorRecord(m, "exception", "absent"))
                    /\ next_nodes' = <<"summary">>
                    /\ pc' = GraphEdge(m)
                    /\ UNCHANGED awaiting
               ELSE \* the handler waits for the collaborator's answer
                    /\ awaiting' = TRUE
                    /\ UNCHANGED << errors, next_nodes, pc >>
            /\ UNCHANGED << collab, manager_results >>
       ELSE \* from the collaborator's answer on
            /\ awaiting' = FALSE
            /\ \E a \in AnalysisOutcomes, c \in CatalogOutcomes :
                 LET analysis == a
                     catalog  == IF ~analyze_request_returns(a) THEN "none" ELSE c
                 IN  /\ collab' = [collab EXCEPT !.analysis = analysis, !.catalog = catalog]
                     /\ IF manager_raises(request, analysis, catalog)
                        THEN /\ errors' = Append(errors, ErrorRecord(m, "exception", "absent"))
                             /\ UNCHANGED manager_results
                        ELSE /\ manager_results' =
                                    DictSet(<<>>, m,
                                            ManagerResult(m,
                                                          search_catalog(catalog,
                                                              search_criteria(Val(request))),
                                                          Val(request)))
                             /\ UNCHANGED errors
            /\ next_nodes' = <<"summary">>
            /\ pc' = GraphEdge(m)
            /\ UNCHANGED << current_node, completed_nodes >>
    /\ UNCHANGED << inputs, request, fanout_plan, final_recommendations, telemetry, extra_attrs,
                    error_result >>

\* BaseCardManager.execute of the manager registered under m
Manager(m) ==
    /\ pc = m
    /\ UNCHANGED sessionVars
    /\ IF ~awaiting
       THEN \* up to `await self.llm_tool.nlu_extract(...)` in analyze_request
            /\ current_node' = m
            /\ completed_nodes' = Append(completed_nodes, m)
            /\ IF request = None
               THEN \* analyze_request raises on request.goals before it calls the
                    \* collaborator: the except branch
                    /\ errors' = Append(errors, ErrorRecord(m, "exception", "absent"))
                    /\ next_nodes' = <<"summary">>
                    /\ pc' = GraphEdge(m)
                    /\ UNCHANGED awaiting
               ELSE \* the handler waits for the collaborator's answer
                    /\ awaiting' = TRUE
                    /\ UNCHANGED << errors, next_nodes, pc >>
            /\ UNCHANGED << collab, manager_results >>
       ELSE \* from the collaborator's answer on
            /\ awaiting' = FALSE
            /\ \E a \in AnalysisOutcomes, c \in CatalogOutcomes :
                 LET analysis == a
                     catalog  == IF ~analyze_request_returns(a) THEN "none" ELSE c
                 IN  /\ collab' = [collab EXCEPT !.analysis = analysis, !.catalog = catalog]
                     /\ IF manager_raises(request, analysis, catalog)
                        THEN /\ errors' = Append(errors, ErrorRecord(m, "exception", "absent"))
                             /\ UNCHANGED manager_results
                        ELSE /\ manager_results' =
                                    DictSet(manager_results, m,
                                            ManagerResult(m,
                                                          search_catalog(catalog,
                                                              search_criteria(Val(request))),
                                                          Val(request)))
                             /\ UNCHANGED errors
            /\ next_nodes' = <<"summary">>
            /\ pc' = GraphEdge(m)
            /\ UNCHANGED << current_node, completed_nodes >>
    /\ UNCHANGED << inputs, request, fanout_plan, final_recommendations, telemetry, extra_attrs,
                    error_result >>

\* card names collected by OnlineSearchAgent.execute for the specific
\* searches: those of the results with the attribute recommendations
searched_card_names(mr) ==
    LET HasRecommendations(item) == has_recommendations(item[2])
        recs == FlattenRecs(SelectSeq(mr, HasRecommendations))
    IN  Take([ i \in 1..Len(recs) |-> recs[i].card_name ], 3)

\* relevance scores of the simulated search results: the doubles of 0.95,
\* 0.9, 0.85, 0.8 and 0.7
Rel95 == << 255013683, 214748352 >>
Rel90 == << 241591910, 429496736 >>
Rel85 == << 228170137, 644245088 >>
Rel80 == << 214748364, 858993472 >>
Rel70 == << 187904819, 214748352 >>

\* SearchResult; the title is a sequence of its parts
SearchResult(source, title, relevance_score) ==
    [ source |-> source, title |-> title, relevance_score |-> relevance_score ]

\* list.sort(key=lambda x: x.relevance_score, reverse=True)
SortByRelevance(results) ==
    LET sorted == SortDescPairs([ i \in 1..Len(results) |->
                                    << results[i].relevance_score, results[i] >> ])
    IN  [ i \in 1..Len(sorted) |-> sorted[i][2] ]

\* OnlineSearchAgent.search_credit_card_info
search_credit_card_info(query) ==
    LET search_results ==
          (IF TextHas(query, "travel") \/ TextHas(query, "miles")
           THEN << SearchResult("Credit Card Review Site", <<"Best Travel Credit Cards 2024">>, Rel90),
                   SearchResult("Bank Website", <<"Travel Rewards Program">>, Rel80) >>
           ELSE <<>>)
          \o (IF TextHas(query, "cashback") \/ TextHas(query, "rewards")
              THEN << SearchResult("Financial Blog", <<"Cashback vs Points: Which is Better?">>,
                                   Rel85) >>
              ELSE <<>>)
          \o (IF TextHas(query, "business") \/ TextHas(query, "corporate")
              THEN << SearchResult("Business Finance Site", <<"Business Credit Card Guide">>,
                                   Rel90) >>
              ELSE <<>>)
          \o (IF TextHas(query, "student") \/ TextHas(query, "building credit")
              THEN << SearchResult("Student Finance Blog", <<"First Credit Card for Students">>,
                                   Rel90) >>
              ELSE <<>>)
          \o << SearchResult("Credit Card Comparison", <<"Credit Card Basics">>, Rel70) >>
    IN  Take(SortByRelevance(search_results), 5)

\* OnlineSearchAgent.search_card_specific_info
search_card_specific_info(card_name) ==
    (CASE card_name = "Singapore Airlines KrisFlyer Credit Card" ->
            << SearchResult("Singapore Airlines", <<"KrisFlyer Credit Card Benefits">>, Rel95) >>
       [] card_name = "DBS Live Fresh Card" ->
            << SearchResult("DBS Bank", <<"Live Fresh Card Features">>, Rel95) >>
       [] card_name = "UOB Business Card" ->
            << SearchResult("UOB Bank", <<"Business Card Solutions">>, Rel90) >>
       [] OTHER -> <<>>)
    \o << SearchResult("Card Review Site", << card_name, " Review" >>, Rel80) >>

\* the results of the specific searches for these card names, one after another
RECURSIVE card_specific_results(_)
card_specific_results(card_names) ==
    IF card_names = <<>> THEN <<>>
    ELSE search_card_specific_info(Head(card_names)) \o card_specific_results(Tail(card_names))

\* the key of a result in unique_results
result_key(result) == [ source |-> result.source, title |-> result.title ]

\* unique_results of OnlineSearchAgent.execute: per key the first result,
\* replaced by a later one of strictly higher relevance
RECURSIVE unique_results(_)
unique_results(all_results) ==
    IF all_results = <<>> THEN <<>>
    ELSE LET earlier == unique_results(SubSeq(all_results, 1, Len(all_results) - 1))
             result  == all_results[Len(all_results)]
             key     == result_key(result)
         IN  IF key \notin DictKeys(earlier)
                \/ fl_lt(DictGet(earlier, key).relevance_score, result.relevance_score)
             THEN DictSet(earlier, key, result)
             ELSE earlier

\* everything the searches of OnlineSearchAgent.execute collected
all_search_results(query, mr) ==
    search_credit_card_info(query) \o card_specific_results(searched_card_names(mr))

\* final_results of OnlineSearchAgent.execute
combined_results(query, mr) ==
    LET unique == unique_results(all_search_results(query, mr))
    IN  Take(SortByRelevance([ i \in 1..Len(unique) |-> unique[i][2] ]), 8)

\* OnlineSearchAgent.execute
OnlineSearch ==
    /\ pc = "online_search"
    /\ UNCHANGED << sessionVars, awaiting >>
    /\ current_node' = "online_search"
    /\ completed_nodes' = Append(completed_nodes, "online_search")
    /\ IF setattr_raises("online_search_results")
       THEN /\ errors' = Append(errors, ErrorRecord("online_search", "no field", "absent"))
            /\ UNCHANGED extra_attrs
       ELSE /\ extra_attrs' = DictSet(extra_attrs, "online_search_results",
                                      [ combined_results |->
                                            combined_results(user_query, manager_results),
                                        total_results |->
                                            Len(combined_results(user_query, manager_results)) ])
            /\ UNCHANGED errors
    /\ next_nodes' = <<"policy_validation">>
    /\ pc' = GraphEdge("online_search")
    /\ UNCHANGED << inputs, request, fanout_plan, manager_results, final_recommendations,
                    telemetry, collab, error_result >>

\* What the policy collaborator does when the compliance check calls it: it
\* answers as MockPolicyTool does ("ok"), it raises, or it answers with a
\* policy pack that has no compliance entry ("bare_pack")
PolicyOutcomes == {"ok", "raise", "bare_pack"}

\* PolicyValidationAgent.validate_request_compliance with MockPolicyTool's
\* answers: the warnings of its PolicyValidationResult
validation_warnings(outcome, cons) ==
    IF outcome = "raise" THEN <<"Policy validation error">>
    ELSE (IF ~cons.personalization
          THEN <<"Personalization consent required for better recommendations">> ELSE <<>>)
         \o
         (IF ~cons.data_sharing
          THEN <<"Data sharing consent required for comprehensive analysis">> ELSE <<>>)

\* PolicyValidationAgent.validate_request_compliance: the compliance_issues
\* of its PolicyValidationResult
compliance_issues(outcome, req) ==
    IF outcome # "bare_pack" THEN <<>>
    ELSE CASE req.jurisdiction = SG -> <<"GDPR compliance not applicable for Singapore">>
           [] req.jurisdiction = US -> <<"CCPA compliance not applicable for US">>
           [] OTHER -> <<>>

\* PolicyValidationAgent.validate_request_compliance: is_valid of its
\* PolicyValidationResult (validation_result.get("valid", True), and True
\* when the collaborator raised)
validation_is_valid(outcome) == TRUE

\* PolicyValidationAgent.execute
PolicyValidation ==
    /\ pc = "policy_validation"
    /\ UNCHANGED << sessionVars, awaiting >>
    /\ current_node' = "policy_validation"
    /\ completed_nodes' = Append(completed_nodes, "policy_validation")
    /\ \E o \in PolicyOutcomes :
         LET policy   == IF request = None THEN "none" ELSE o
             warnings == IF request = None THEN <<>> ELSE validation_warnings(o, consent)
         IN  /\ collab' = [collab EXCEPT !.policy = policy]
             /\ IF setattr_raises("policy_validation")
                THEN /\ errors' = Append(errors,
                                         ErrorRecord("policy_validation", "no field", "absent"))
                     /\ UNCHANGED extra_attrs
                ELSE /\ extra_attrs' = DictSet(extra_attrs, "policy_validation",
                                               [ is_compliant |-> request = None
                                                                  \/ validation_is_valid(o),
                                                 warnings |-> warnings ])
                     /\ errors' = errors \o
                            [ i \in 1..Len(warnings) |->
                                ErrorRecord("policy_validation", warnings[i], "warning") ]
    /\ next_nodes' = <<"summary">>
    /\ pc' = GraphEdge("policy_validation")
    /\ UNCHANGED << inputs, request, fanout_plan, manager_results, final_recommendations,
                    telemetry, error_result >>

\* ErrorHandlerNode.execute, also resetting the request of the state
ErrorHandler_ClearingRequest ==
    /\ pc = "error_handler"
    /\ UNCHANGED << sessionVars, awaiting >>
    /\ current_node' = "error_handler"
    /\ completed_nodes' = Append(completed_nodes, "error_handler")
    /\ error_result' = Some(ErrorHandlingResult(errors, request))
    /\ request' = None
    /\ errors' = Append(errors,
                        ErrorRecord("error_handler", "Error handler failed", "critical"))
    /\ next_nodes' = <<>>
    /\ pc' = GraphEdge("error_handler")
    /\ UNCHANGED << inputs, fanout_plan, manager_results, final_recommendations,
                    telemetry, collab, extra_attrs >>

\* ErrorHandlerNode.execute
ErrorHandler ==
    /\ pc = "error_handler"
    /\ UNCHANGED << sessionVars, awaiting >>
    /\ current_node' = "error_handler"
    /\ completed_nodes' = Append(completed_nodes, "error_handler")
    /\ error_result' = Some(ErrorHandlingResult(errors, request))
    /\ IF setattr_raises("error_handling")
       THEN /\ errors' = Append(errors,
                                ErrorRecord("error_handler", "Error handler failed", "critical"))
            /\ next_nodes' = <<>>
            /\ UNCHANGED extra_attrs
       ELSE /\ extra_attrs' = DictSet(extra_attrs, "error_handling",
                                      ErrorHandlingResult(errors, request))
            /\ next_nodes' = <<"summary">>
            /\ UNCHANGED errors
    /\ pc' = GraphEdge("error_handler")
    /\ UNCHANGED << inputs, request, fanout_plan, manager_results, final_recommendations,
                    telemetry, collab >>

\* SummaryAgent.execute, assigning completed_nodes instead of appending to it
Summary_ForgettingStages ==
    /\ pc = "summary"
    /\ UNCHANGED << sessionVars, awaiting >>
    /\ current_node' = "summary"
    /\ completed_nodes' = <<"summary">>
    /\ IF summary_raises(manager_results, request)
       THEN /\ errors' = Append(errors, ErrorRecord("summary", "exception", "absent"))
            /\ UNCHANGED final_recommendations
       ELSE /\ \E sum_builtin \in SumBuiltins :
                    final_recommendations' = Some(SummaryResult(manager_results, sum_builtin))
            /\ UNCHANGED errors
    /\ next_nodes' = <<>>
    /\ pc' = GraphEdge("summary")
    /\ UNCHANGED << inputs, request, fanout_plan, manager_results, telemetry, extra_attrs,
                    collab, error_result >>

\* SummaryAgent.execute taking the candidates out of the result map as it
\* aggregates them
Summary_DrainingResults ==
    /\ pc = "summary"
    /\ UNCHANGED << sessionVars, awaiting >>
    /\ current_node' = "summary"
    /\ completed_nodes' = Append(completed_nodes, "summary")
    /\ IF summary_raises(manager_results, request)
       THEN /\ errors' = Append(errors, ErrorRecord("summary", "exception", "absent"))
            /\ UNCHANGED final_recommendations
       ELSE /\ \E sum_builtin \in SumBuiltins :
                    final_recommendations' = Some(SummaryResult(manager_results, sum_builtin))
            /\ UNCHANGED errors
    /\ manager_results' = [ i \in 1..Len(manager_results) |->
                              << manager_results[i][1],
                                 IF has_recommendations(manager_results[i][2])
                                 THEN [ manager_results[i][2] EXCEPT !.recommendations = <<>> ]
                                 ELSE manager_results[i][2] >> ]
    /\ next_nodes' = <<>>
    /\ pc' = GraphEdge("summary")
    /\ UNCHANGED << inputs, request, fanout_plan, telemetry, extra_attrs,
                    collab, error_result >>

\* SummaryAgent.execute
Summary ==
    /\ pc = "summary"
    /\ UNCHANGED << sessionVars, awaiting >>
    /\ current_node' = "summary"
    /\ completed_nodes' = Append(completed_nodes, "summary")
    /\ IF summary_raises(manager_results, request)
       THEN /\ errors' = Append(errors, ErrorRecord("summary", "exception", "absent"))
            /\ UNCHANGED final_recommendations
       ELSE /\ \E sum_builtin \in SumBuiltins :
                    final_recommendations' = Some(SummaryResult(manager_results, sum_builtin))
            /\ UNCHANGED errors
    /\ next_nodes' = <<>>
    /\ pc' = GraphEdge("summary")
    /\ UNCHANGED << inputs, request, fanout_plan, manager_results, telemetry, extra_attrs,
                    collab, error_result >>

Next ==
    \/ Extractor
    \/ Router
    \/ \E m \in Managers : Manager(m)
    \/ OnlineSearch
    \/ PolicyValidation
    \/ ErrorHandler
    \/ Summary

Spec == Init /\ [][Next]_vars

\* ------------------------------------------------- building initial states

\* int(time.time()): the whole seconds of the clock
int_time(t) == t \div TicksPerSecond

\* create_initial_state called when the clock shows now
create_initial_state(query, now) ==
    [ session_id |-> << "session_", int_time(now) >>,
      user_query |-> query,
      locale     |-> en_SG,
      consent    |-> [personalization |-> TRUE, data_sharing |-> FALSE,
                      credit_pull |-> "none"] ]

\* time passes
ClockTick ==
    /\ clock < MaxClock
    /\ clock' = clock + 1
    /\ UNCHANGED << sessions, runVars >>

\* a request arrives and create_initial_state builds its state
CreateInitialState ==
    /\ Len(sessions) < MaxSessions
    /\ \E query \in Texts :
          sessions' = Append(sessions, create_initial_state(query, clock))
    /\ UNCHANGED << clock, runVars >>

SessionInit ==
    /\ Init
    /\ entry = "extractor"
    /\ user_query = <<"miles">>
    /\ locale = en_SG
    /\ consent.personalization
    /\ errors = <<>>

SessionNext ==
    \/ ClockTick
    \/ CreateInitialState

SessionSpec == SessionInit /\ [][SessionNext]_vars

TypeOK ==
    /\ pc \in {"extractor", "router", "online_search", "policy_validation",
               "error_handler", "summary", END, NodeRaised} \cup Managers
    /\ entry \in EntryStages
    /\ fanout_plan = None \/ Range(Val(fanout_plan)) \subseteq Managers
    /\ awaiting \in BOOLEAN
    /\ awaiting => pc \in {"extractor"} \cup Managers


\* ============================================================ properties

\* the run entered at the entry point of the compiled graph
Pipeline == entry = "extractor"

\* the run passes the router: it entered at the extractor or at the router
RoutedRun == entry \in {"extractor", "router"}

\* the run is over: it reached END or a stage's exception ended it
Finished == pc \in {END, NodeRaised}

\* the nodes added with workflow.add_node
Stages == {"extractor", "router", "online_search", "policy_validation",
           "error_handler", "summary"} \cup Managers

\* the run has stopped: no stage is due.  (The only guard of a stage's
\* action is that the stage is due, so a run stops exactly when none is.)
Stopped == pc \notin Stages

Completed(node) == node \in Range(completed_nodes)

ErrorsOf(node) == { i \in 1..Len(errors) : errors[i].node = node }

\* completed_nodes lists a before b
Before(a, b) ==
    \E i, j \in 1..Len(completed_nodes) :
        i < j /\ completed_nodes[i] = a /\ completed_nodes[j] = b

\* C1: every run of the compiled pipeline, whatever the input and whichever
\* collaborator fails, ends with final_recommendations set to a final answer.
C1_FinalAnswerAlways ==
    (Pipeline /\ Finished) => final_recommendations # None

\* C2: every run of the pipeline reaches the terminal state end: a run
\* stops nowhere but at end, in no intermediate stage and by no abort.  (The
\* graph is acyclic, so every run stops.)
C2_AlwaysReachesEnd ==
    (Pipeline /\ Stopped) => pc = END

\* C3: when the summary stage starts after a fan-out with plan P, every
\* category handler named in P has executed: it stored its key in
\* manager_results or recorded its failure in errors.
C3_BarrierAfterFanout ==
    (pc = "summary" /\ fanout_plan # None /\ Completed("policy_validation"))
        => \A m \in Range(Val(fanout_plan)) :
              m \in DictKeys(manager_results) \/ ErrorsOf(m) # {}

\* C4: when extraction hits its fatal condition (empty user text) the run
\* goes on to error_handler, then summary, then end, and runs no category
\* handler.
C4_FatalExtractionFallsBack ==
    (Pipeline /\ user_query = <<>> /\ pc # "extractor")
        => /\ pc \in {"error_handler", "summary", END}
           /\ Range(completed_nodes) \cap Managers = {}

\* C5: for an empty user text the final answer holds exactly one candidate,
\* the error handler's fallback candidate, with score 0.6.
C5_EmptyTextFallbackAnswer ==
    (Pipeline /\ user_query = <<>> /\ Finished)
        => /\ final_recommendations # None
           /\ Len(Val(final_recommendations).final_recommendations) = 1
           /\ Val(final_recommendations).final_recommendations[1].card_id = "fallback_001"
           /\ Val(final_recommendations).final_recommendations[1].overall_score = FallbackScore

\* the router stage has run on a state without a structured request
RouterRanWithoutRequest == Completed("router") /\ request = None

\* C6: when the router stage runs with no structured request it appends an
\* error record tagged router and the run continues with error_handler and
\* then summary, stopping only at end; no category handler, online_search
\* or policy_validation executes in that run.
C6_RouterWithoutRequest ==
    RouterRanWithoutRequest
        => /\ Cardinality(ErrorsOf("router")) = 1
           /\ pc \in {"error_handler", "summary", END}
           /\ Range(completed_nodes) \cap (Managers \cup {"online_search", "policy_validation"}) = {}
           /\ (pc \in {"summary", END} => Before("router", "error_handler"))
           /\ (pc = END => Before("error_handler", "summary"))
           /\ (Stopped => pc = END)

C6_Witness ==
    /\ RouterRanWithoutRequest
    /\ pc = END
    /\ Before("router", "error_handler")
    /\ Before("error_handler", "summary")

\* C7: when the summary stage starts, manager_results holds the key of every
\* category of the fan-out plan, also when a handler's step raised.
C7_PlannedKeysPresent ==
    (pc = "summary" /\ fanout_plan # None /\ Completed("policy_validation"))
        => Range(Val(fanout_plan)) \subseteq DictKeys(manager_results)

\* the handler m has run and its execution raised
HandlerRaised(m) ==
    Completed(m) /\ manager_raises(request, collab.analysis, collab.catalog)

\* C8: when a category handler's execution raises, no exception leaves the
\* handler, exactly one error record tagged with the handler's name is
\* appended, and the run proceeds through online_search, policy_validation
\* and summary, stopping only at end.
C8_HandlerFailureContained ==
    \A m \in Managers :
        HandlerRaised(m)
            => /\ Cardinality(ErrorsOf(m)) = 1
               /\ pc \in {"online_search", "policy_validation", "summary", END}
               /\ (pc # "online_search" => Before(m, "online_search"))
               /\ (pc \in {"summary", END} => Before("online_search", "policy_validation"))
               /\ (pc = END => Before("policy_validation", "summary"))
               /\ (Stopped => pc = END)

C8_Witness ==
    /\ \E m \in Managers : HandlerRaised(m) /\ Cardinality(ErrorsOf(m)) = 1
    /\ collab.catalog = "malformed"
    /\ pc = END

\* the handler m has run and the catalog collaborator raised in its search
CatalogFailedIn(m) == Completed(m) /\ collab.catalog = "raise"

\* C9: a failure of the catalog collaborator inside a handler's search step
\* does not fail the handler: it records no failure, ranks the fixed
\* fallback candidates, stores that result under its own key, and the run
\* stops only at end.
C9_CatalogFailureFallsBack ==
    \A m \in Managers :
        CatalogFailedIn(m)
            => /\ pc # NodeRaised
               /\ ErrorsOf(m) = {}
               /\ m \in DictKeys(manager_results)
               /\ DictGet(manager_results, m).manager_type = m
               /\ DictGet(manager_results, m).total_cards_found = Len(_get_mock_cards)
               /\ [ i \in 1..Len(DictGet(manager_results, m).recommendations) |->
                      DictGet(manager_results, m).recommendations[i].card_id ]
                  = [ i \in 1..Len(_get_mock_cards) |-> _get_mock_cards[i].card_id ]
               /\ (Stopped => pc = END)

C9_Witness ==
    /\ CatalogFailedIn("travel_manager")
    /\ "travel_manager" \in DictKeys(manager_results)
    /\ pc = END

\* C10: whenever the error handler runs, with or without a structured
\* request in the state, it produces exactly one generic fallback candidate
\* (annual fee at most 50, match score 0.6).
C10_FallbackAlwaysProduced ==
    Completed("error_handler")
        => /\ error_result # None
           /\ Len(Val(error_result).fallback_recommendations) = 1
           /\ Val(error_result).fallback_recommendations[1].annual_fee <= 5000
           /\ Val(error_result).fallback_recommendations[1].match_score = FallbackScore

\* the goal tags of a category's routing group
RoutingGroup(m) ==
    CASE m = "travel_manager"   -> {"miles", "travel", "airline", "hotel"}
      [] m = "cashback_manager" -> {"cashback", "cash", "rewards", "money"}
      [] m = "business_manager" -> {"business", "corporate", "expense", "employee"}
      [] m = "student_manager"  -> {"student", "building_credit", "first", "college"}
      [] OTHER                  -> {}

\* the categories of the routing table, in the order of the table
TableOrder == <<"travel_manager", "cashback_manager", "business_manager", "student_manager">>

\* the position of a category in the table
TablePos(m) == CHOOSE i \in 1..Len(TableOrder) : TableOrder[i] = m

\* the router has planned the fan-out for the request of the state
RouterPlanned == Completed("router") /\ request # None /\ fanout_plan # None

\* C11: for every request whose goals hold no tag of any routing group, the
\* empty goal list included, the fan-out plan is exactly [general_manager].
C11_NoTagGivesGeneral ==
    (RouterPlanned
       /\ \A m \in Range(TableOrder) : ~AnyIn(Val(request).goals, RoutingGroup(m)))
    => Val(fanout_plan) = <<"general_manager">>

C11_Witness ==
    /\ RouterPlanned
    /\ Val(request).goals = <<"luxury">>
    /\ Val(fanout_plan) = <<"general_manager">>

\* C12: for every goal list the fan-out plan is non-empty, lists each
\* category at most once, in the order of the table (travel, cashback,
\* business, student) whatever the order of the goals, holds a category
\* exactly when some goal belongs to its group, and holds general_manager
\* only as its sole entry.
C12_PlanShape ==
    RouterPlanned =>
    LET plan  == Val(fanout_plan)
        goals == Val(request).goals
    IN  /\ plan # <<>>
        /\ \A i, j \in 1..Len(plan) : i < j => plan[i] # plan[j]
        /\ \A m \in Range(TableOrder) :
              m \in Range(plan) <=> AnyIn(goals, RoutingGroup(m))
        /\ \A i, j \in 1..Len(plan) :
              (i < j /\ plan[i] \in Range(TableOrder) /\ plan[j] \in Range(TableOrder))
              => TablePos(plan[i]) < TablePos(plan[j])
        /\ Range(plan) \subseteq Range(TableOrder) \cup {"general_manager"}
        /\ "general_manager" \in Range(plan) => plan = <<"general_manager">>

C12_Witness ==
    /\ RouterPlanned
    /\ Val(request).goals = <<"cashback", "miles">>
    /\ Val(fanout_plan) = <<"travel_manager", "cashback_manager">>

\* the extractor of a pipeline run returned normally
Extracted == Pipeline /\ Completed("extractor")

\* the dict the text-understanding collaborator returned holds this key
LLMReturnedKey(k) == collab.llm_out.kind = "dict" /\ k \in collab.llm_out.data.keys

\* C13: after every successful extraction request.jurisdiction is the
\* jurisdiction derived from the locale of the session, whatever jurisdiction
\* the collaborator returned, also when the collaborator's output is replaced
\* by the minimal default request.
C13_JurisdictionFromLocale ==
    Extracted =>
        /\ request # None
        /\ Val(request).jurisdiction = _parse_jurisdiction_from_locale(locale)

C13_Witness ==
    /\ Extracted
    /\ LLMReturnedKey("jurisdiction")
    /\ "jurisdiction" \notin collab.llm_out.data.bad
    /\ collab.llm_out.data.jurisdiction = US
    /\ locale = en_SG
    /\ Val(request).jurisdiction = SG

\* C14: for every text and every collaborator output, without the
\* personalization consent the request produced by the extraction has
\* spend_focus = {} and priority = [].
C14_NoPersonalizationNoProfile ==
    (Extracted /\ ~consent.personalization) =>
        /\ request # None
        /\ Val(request).spend_focus = {}
        /\ Val(request).priority = <<>>

C14_Witness ==
    /\ Extracted
    /\ ~consent.personalization
    /\ LLMReturnedKey("priority")
    /\ LLMReturnedKey("spend_focus")
    /\ collab.llm_out.data.bad = {}
    /\ collab.llm_out.data.priority # <<>>
    /\ collab.llm_out.data.spend_focus # {}
    /\ Val(request).priority = <<>>
    /\ Val(request).spend_focus = {}

\* the extractor of a pipeline run has run on an empty text
ExtractorRanOnEmptyText == Pipeline /\ user_query = <<>> /\ pc # "extractor"

\* C15: on a missing or empty text the extractor refuses to run: it signals
\* the fatal input error 'No user query provided', calls no collaborator,
\* leaves request null and does not add extractor to completed_nodes.
C15_EmptyTextRefused ==
    ExtractorRanOnEmptyText =>
        /\ pc = NodeRaised
        /\ errors # <<>>
        /\ errors[Len(errors)] = ErrorRecord("extractor", "No user query provided", "absent")
        /\ collab.llm = "none"
        /\ request = None
        /\ ~Completed("extractor")
        /\ completed_nodes = <<>>

C15_Witness ==
    /\ ExtractorRanOnEmptyText
    /\ pc = NodeRaised
    /\ Cardinality(ErrorsOf("extractor")) >= 1
    /\ request = None

\* C16: for every non-empty text, whether the text-understanding
\* collaborator succeeds, raises or returns malformed data, the extractor
\* returns normally with a request in which every field is populated.
C16_ExtractorAlwaysReturns ==
    (Pipeline /\ user_query # <<>> /\ pc # "extractor") =>
        /\ pc # NodeRaised
        /\ Completed("extractor")
        /\ request # None

\* the recommendations are in non-increasing order of their match score
NonIncreasingMatch(recs) ==
    \A i \in 1..(Len(recs) - 1) : fl_le(recs[i + 1].match_score, recs[i].match_score)

\* the result the handler m stored in this run
StoredBy(m) == Completed(m) /\ m \in DictKeys(manager_results)

\* C17: every CategoryResult a handler stores in manager_results has at most
\* 3 recommendations, in non-increasing order of match_score, and its
\* best_match is the first of them (None exactly when there is none).
C17_CategoryResultOrdered ==
    \A m \in Managers :
        StoredBy(m) =>
        LET r == DictGet(manager_results, m)
        IN  /\ Len(r.recommendations) <= 3
            /\ NonIncreasingMatch(r.recommendations)
            /\ r.best_match = (IF r.recommendations = <<>> THEN None
                               ELSE Some(r.recommendations[1]))

C17_Witness ==
    \E m \in Managers :
        /\ StoredBy(m)
        /\ DictGet(manager_results, m).total_cards_found > 3
        /\ Len(DictGet(manager_results, m).recommendations) = 3
        /\ fl_lt(DictGet(manager_results, m).recommendations[3].match_score,
                 DictGet(manager_results, m).recommendations[1].match_score)

\* the final recommendations are in non-increasing order of their aggregate score
NonIncreasingOverall(recs) ==
    \A i \in 1..(Len(recs) - 1) : fl_le(recs[i + 1].overall_score, recs[i].overall_score)

\* C18: in every final answer final_recommendations is in non-increasing
\* order of the aggregate score and top_recommendation is its first element
\* (None exactly when the list is empty).
C18_FinalAnswerOrdered ==
    final_recommendations # None =>
    LET a == Val(final_recommendations)
    IN  /\ NonIncreasingOverall(a.final_recommendations)
        /\ a.top_recommendation = (IF a.final_recommendations = <<>> THEN None
                                   ELSE Some(a.final_recommendations[1]))

C18_Witness ==
    /\ final_recommendations # None
    /\ Len(Val(final_recommendations).final_recommendations) = 2
    /\ Val(final_recommendations).final_recommendations[1].card_id = "cashback_001"
    /\ Val(final_recommendations).final_recommendations[2].card_id = "travel_001"
    /\ fl_lt(Val(final_recommendations).final_recommendations[2].overall_score,
             Val(final_recommendations).final_recommendations[1].overall_score)

\* the categories of the result map whose recommendations hold the candidate
CategoriesWith(mr, id) ==
    { i \in 1..Len(mr) : \E j \in 1..Len(mr[i][2].recommendations) :
                            mr[i][2].recommendations[j].card_id = id }

\* C19: the aggregate score of a final recommendation is the candidate's own
\* match score plus 0.1 for each additional category, beyond the one that
\* contributed it, whose result holds the same candidate, capped at 1.0; a
\* candidate recommended by exactly one category keeps its match score.
C19_AggregateScore ==
    final_recommendations # None =>
    LET finals == Val(final_recommendations).final_recommendations
        pool   == aggregate_manager_results(manager_results)
    IN  \A i \in 1..Len(finals) :
          \E j \in 1..Len(pool) :
            /\ pool[j].card_id = finals[i].card_id
            /\ finals[i].overall_score =
                 fl_min(fl_add_times(pool[j].match_score, Boost10,
                                     Cardinality(CategoriesWith(manager_results,
                                                                finals[i].card_id)) - 1),
                        One)

\* C20: the final recommendation list holds at most one entry per candidate
\* identifier: a candidate recommended by several categories is merged into
\* one aggregate entry, whose score is at most 1.0.
C20_OneEntryPerCandidate ==
    final_recommendations # None =>
    LET finals == Val(final_recommendations).final_recommendations
    IN  /\ \A i, j \in 1..Len(finals) : i < j => finals[i].card_id # finals[j].card_id
        /\ \A i \in 1..Len(finals) : fl_le(finals[i].overall_score, One)

\* the summary stage has run on a result map without any candidate
SummaryRanOnNoCandidates ==
    /\ Completed("summary")
    /\ \A i \in 1..Len(manager_results) : has_recommendations(manager_results[i][2])
    /\ aggregate_manager_results(manager_results) = <<>>

\* c is the mean of the scores as a double: their sum, added up from the left
\* or with the rounding errors of the additions put back, divided by their
\* number
IsMean(c, scores) ==
    \/ Len(scores) = 2 /\ c = fl_div(fl_add(scores[1], scores[2]), 2)
    \/ /\ Len(scores) = 3
       /\ LET s12  == fl_add(scores[1], scores[2])
              s123 == fl_add(s12, scores[3])
              errs == fl_add_error(scores[1], scores[2]) + fl_add_error(s12, scores[3])
          IN  c \in { fl_div(s123, 3), fl_div(fl_add_small(s123, errs), 3) }

\* C21: the run confidence is the mean of the aggregate scores of the first
\* min(3, n) of the n final recommendations; on an empty result map, or one
\* without candidates, the summary stage produces an explicit
\* no-recommendations answer with an empty list and confidence 0.
C21_ConfidenceIsMeanOfTop3 ==
    /\ SummaryRanOnNoCandidates =>
         /\ final_recommendations # None
         /\ Val(final_recommendations).final_recommendations = <<>>
         /\ Val(final_recommendations).total_cards_analyzed = 0
         /\ Val(final_recommendations).confidence_score = Zero
    /\ final_recommendations # None =>
         LET f == Val(final_recommendations).final_recommendations
             c == Val(final_recommendations).confidence_score
             n == Len(f)
         IN  CASE n = 0 -> c = Zero
               [] n = 1 -> c = f[1].overall_score
               [] n = 2 -> IsMean(c, << f[1].overall_score, f[2].overall_score >>)
               [] OTHER -> IsMean(c, << f[1].overall_score, f[2].overall_score,
                                        f[3].overall_score >>)

C21_Witness ==
    /\ final_recommendations # None
    /\ Len(Val(final_recommendations).final_recommendations) > 3
    /\ IsMean(Val(final_recommendations).confidence_score,
              << Val(final_recommendations).final_recommendations[1].overall_score,
                 Val(final_recommendations).final_recommendations[2].overall_score,
                 Val(final_recommendations).final_recommendations[3].overall_score >>)
    /\ fl_lt(Zero, Val(final_recommendations).confidence_score)

\* the list a is a prefix of the list b
IsPrefix(a, b) == Len(a) <= Len(b) /\ SubSeq(b, 1, Len(a)) = a

\* C22: across every stage transition the previous contents of errors,
\* completed_nodes and the telemetry event log are a prefix of the new
\* contents: stages only append, they never remove or reorder entries.
C22_ListsAppendOnly ==
    [][ /\ IsPrefix(errors, errors')
        /\ IsPrefix(completed_nodes, completed_nodes')
        /\ IsPrefix(telemetry, telemetry') ]_vars

C22_Witness ==
    /\ pc = END
    /\ Len(errors) >= 2
    /\ errors[1] = PriorError
    /\ Len(completed_nodes) >= 3
    /\ completed_nodes[1] = "extractor"
    /\ telemetry = <<"extractor.ok">>

\* C23: request, fanout_plan and final_recommendations are each assigned at
\* most once, only by the extractor, the router and the summary stage
\* respectively, and never change once they are non-null.
C23_OptionalFieldsSetOnce ==
    [][ /\ request # None => request' = request
        /\ request' # request => pc = "extractor"
        /\ fanout_plan # None => fanout_plan' = fanout_plan
        /\ fanout_plan' # fanout_plan => pc = "router"
        /\ final_recommendations # None => final_recommendations' = final_recommendations
        /\ final_recommendations' # final_recommendations => pc = "summary" ]_vars

C23_Witness ==
    /\ Pipeline
    /\ pc = END
    /\ request # None
    /\ fanout_plan # None
    /\ final_recommendations # None

\* the compliance check has run on the request of the state
PolicyChecked == Completed("policy_validation") /\ request # None

\* what the compliance check found: consent gaps and jurisdiction-specific findings
PolicyFindings ==
    Range(validation_warnings(collab.policy, consent))
    \cup Range(compliance_issues(collab.policy, Val(request)))

\* C24: every consent gap and every jurisdiction-specific finding of the
\* compliance check is appended to errors as a record classified warning and
\* tagged policy_validation, and the summary stage runs afterwards however
\* many such records there are.
C24_FindingsBecomeWarnings ==
    PolicyChecked =>
        /\ \A w \in PolicyFindings :
              \E i \in 1..Len(errors) : errors[i] = ErrorRecord("policy_validation", w, "warning")
        /\ pc \in {"summary", END}
        /\ pc = END => Before("policy_validation", "summary")

\* C25: when the informational-search collaborator or the policy
\* collaborator fails, the enrichment stage raises nothing and yields its
\* neutral result (empty search results; a compliant validation result),
\* and the run continues to the summary stage.
C25_EnrichmentFailureNeutral ==
    /\ Completed("online_search") => pc \in {"policy_validation", "summary", END}
    /\ (Completed("policy_validation") /\ collab.policy = "raise") =>
         /\ pc \in {"summary", END}
         /\ pc = END => Before("policy_validation", "summary")
         /\ "policy_validation" \in DictKeys(extra_attrs)
         /\ DictGet(extra_attrs, "policy_validation").is_compliant
         /\ ErrorsOf("policy_validation")
              = { i \in 1..Len(errors) :
                    errors[i] = ErrorRecord("policy_validation", "Policy validation error",
                                            "warning") }

\* a step taken by a category handler
HandlerStep == pc \in Managers

\* C26: the only session-state location a category handler writes, apart
\* from appends to errors and completed_nodes, is its own key of
\* manager_results: every other field, and every other key, is left as it was.
C26_HandlerWritesOwnKeyOnly ==
    [][ HandlerStep =>
          /\ UNCHANGED << user_query, locale, consent, request, fanout_plan,
                          final_recommendations, telemetry, extra_attrs >>
          /\ current_node' = current_node
          /\ next_nodes' = next_nodes
          /\ IsPrefix(errors, errors')
          /\ IsPrefix(completed_nodes, completed_nodes')
          /\ \A k \in DictKeys(manager_results') \ {pc} :
                /\ k \in DictKeys(manager_results)
                /\ DictGet(manager_results', k) = DictGet(manager_results, k)
      ]_vars

\* the category handlers that have executed
HandlersRun == { m \in Managers : Completed(m) }

\* C28: at most one category handler executes in a run (while control is at
\* a handler, no other handler has executed, and none at all before it
\* starts), and in a run that passes the router it is the first entry of
\* the fan-out plan; the other planned categories never run and never get
\* a key in manager_results.
C28_OnlyFirstPlannedHandlerRuns ==
    /\ Cardinality(HandlersRun) <= 1
    /\ pc \in Managers => HandlersRun \subseteq {pc}
    /\ (pc \in Managers /\ ~awaiting) => HandlersRun = {}
    /\ fanout_plan # None /\ Val(fanout_plan) # <<>> =>
         LET plan == Val(fanout_plan)
         IN  /\ HandlersRun \subseteq {plan[1]}
             /\ pc \in Managers => pc = plan[1]
             /\ \A i \in 2..Len(plan) :
                   /\ ~Completed(plan[i])
                   /\ plan[i] \notin DictKeys(manager_results)
    /\ (RoutedRun /\ (fanout_plan = None \/ Val(fanout_plan) = <<>>)) =>
          HandlersRun \subseteq {"general_manager"}

C28_Witness ==
    /\ pc = END
    /\ fanout_plan # None
    /\ Len(Val(fanout_plan)) >= 2
    /\ HandlersRun = {Val(fanout_plan)[1]}
    /\ DictKeys(manager_results) = {Val(fanout_plan)[1]}
    /\ Val(fanout_plan)[2] \notin DictKeys(manager_results)

\* completed_nodes lists no stage twice
NoStageTwice ==
    \A i, j \in 1..Len(completed_nodes) :
        completed_nodes[i] = completed_nodes[j] => i = j

\* C29: no stage executes more than once in a run: completed_nodes never
\* holds the same stage name twice, and control is never at a stage that
\* has already run (the name of the stage at which control is is in
\* completed_nodes only while that stage is executing).
C29_NoStageRevisited ==
    /\ NoStageTwice
    /\ Completed(pc) => awaiting

C29_Witness ==
    /\ Pipeline
    /\ pc = END
    /\ Len(completed_nodes) = 6
    /\ completed_nodes[1] = "extractor"
    /\ completed_nodes[2] = "router"
    /\ completed_nodes[3] \in Managers
    /\ completed_nodes[4] = "online_search"
    /\ completed_nodes[5] = "policy_validation"
    /\ completed_nodes[6] = "summary"

\* C30: whenever a category handler's name is in completed_nodes,
\* manager_results holds that handler's key (the handler that is still
\* executing, waiting for its collaborator, left aside).
C30_CompletedHandlerStoredResult ==
    \A m \in HandlersRun : (pc = m /\ awaiting) \/ m \in DictKeys(manager_results)

\* C27: any two initial states built by create_initial_state for different
\* requests, including two built within the same clock second, carry
\* different session_id values.
C27_SessionIdsDiffer ==
    \A i, j \in 1..Len(sessions) :
        i # j => sessions[i].session_id # sessions[j].session_id

\* the stages of the normal path behind the router
NormalPathStages == Managers \cup {"online_search", "policy_validation"}

\* C31: a run never executes both error_handler and a category handler,
\* online_search or policy_validation; error_handler is the next stage
\* exactly when errors is non-empty at the routing decision taken after the
\* extractor or after the router, even if that stage itself succeeded.
C31_ErrorPathExclusive ==
    [][ /\ ~( /\ "error_handler" \in Range(completed_nodes')
              /\ Range(completed_nodes') \cap NormalPathStages # {} )
        /\ (pc \in {"extractor", "router"} /\ pc' \notin {pc, NodeRaised}) =>
              (pc' = "error_handler" <=> errors' # <<>>)
        /\ (RoutedRun /\ pc' = "error_handler") => pc \in {"extractor", "router"}
      ]_vars

C31_Witness ==
    /\ entry = "router"
    /\ fanout_plan # None
    /\ errors # <<>>
    /\ errors[1] = PriorError
    /\ ErrorsOf("router") = {}
    /\ Completed("router")
    /\ Completed("error_handler")
    /\ pc = END

\* the router was invoked on a state without a request
RouterInvokedWithoutRequest == entry = "router" /\ request = None /\ Completed("router")

\* C33: invoking the router node on a state whose request is missing raises
\* an error ('No parsed request available for routing') instead of
\* returning a state.
C33_RouterRaisesWithoutRequest ==
    RouterInvokedWithoutRequest =>
        /\ pc = NodeRaised
        /\ fanout_plan = None

\* a stage returned its state to the graph (it did not raise)
StageReturned == pc \in Stages /\ pc' # pc /\ pc' # NodeRaised

\* C32: after each stage returns, next_nodes names exactly the stage the
\* graph executes next, and is empty only when the next state is end.
C32_NextNodesNamesNextStage ==
    [][ StageReturned =>
          next_nodes' = (IF pc' = END THEN <<>> ELSE << pc' >>)
      ]_vars

\* the extractor node terminates by raising in this step
ExtractorRaises == pc = "extractor" /\ pc' = NodeRaised

\* str(e) of the exception the extractor raises in this step: the
\* ValueError of the check of the raw text, or else the exception of
\* _validate_request on the value the collaborator returned in this step
ExtractorExceptionMessage ==
    IF no_raw_text(user_query) THEN "No user query provided"
    ELSE _validate_request_error(
             _extract_structured_data(collab'.llm_out, user_query, locale), consent)

\* C34: whenever the extractor node terminates by raising, it has appended
\* exactly one error record with node extractor carrying the exception
\* message to errors, and it has left request unset: the step in which it
\* raises appends that record, and the part of the node before the awaited
\* collaborator call appends none and sets no request.
C34_ExtractorRaiseRecorded ==
    [][ /\ ExtractorRaises =>
              /\ Len(errors') = Len(errors) + 1
              /\ SubSeq(errors', 1, Len(errors)) = errors
              /\ errors'[Len(errors')].node = "extractor"
              /\ errors'[Len(errors')].error = ExtractorExceptionMessage
              /\ request' = None
              /\ ~Completed("extractor")'
        /\ (pc = "extractor" /\ pc' = "extractor") =>
              /\ errors' = errors
              /\ request' = None
              /\ ~Completed("extractor")'
      ]_vars

C34_Witness ==
    /\ pc = NodeRaised
    /\ user_query # <<>>
    /\ collab.llm = "list"
    /\ ~consent.personalization
    /\ errors = << ErrorRecord("extractor", "pop expected at most 1 argument, got 2",
                               "absent") >>
    /\ request = None
    /\ completed_nodes = <<>>

\* the records of errors of this node that are classified as warnings
WarningsOf(node) == { i \in ErrorsOf(node) : errors[i].type = "warning" }

\* the extraction caught a failure of the text-understanding collaborator
\* and parsed the text by keywords instead
ExtractionFellBack == Extracted /\ collab.llm \in {"raise", "nondict"}

\* the extracted output failed validation (RequestParsed rejected it: it
\* names no intent, or a field has a type the schema refuses) and was
\* replaced by the minimal request
ExtractionOutputReplaced ==
    /\ Extracted
    /\ collab.llm_out.kind = "dict"
    /\ ~RequestParsedAccepts(validated_data(_extract_structured_data(collab.llm_out, user_query,
                                                                     locale),
                                            consent, locale))

\* a handler that stored its result caught a failure of a collaborator
HandlerFellBack(m) ==
    StoredBy(m) /\ (collab.analysis = "raise" \/ collab.catalog = "raise")

\* C35: every collaborator failure that is caught locally (text
\* understanding in extraction or in a handler's analysis, the catalog in a
\* handler's search) and every validation failure of extracted output adds
\* a warning record to errors.
C35_CaughtFailuresRecorded ==
    /\ ExtractionFellBack => WarningsOf("extractor") # {}
    /\ ExtractionOutputReplaced => WarningsOf("extractor") # {}
    /\ \A m \in Managers : HandlerFellBack(m) => WarningsOf(m) # {}

\* C36: a category handler's execution appends its own name exactly once to
\* completed_nodes (when it starts, and not again after the collaborator
\* call it awaits), changes in manager_results only its own key, and leaves
\* request, fanout_plan, final_recommendations and every other category's
\* result unchanged.
C36_HandlerFrame ==
    [][ HandlerStep =>
          /\ completed_nodes' = (IF awaiting THEN completed_nodes
                                 ELSE Append(completed_nodes, pc))
          /\ awaiting' => (~awaiting /\ pc' = pc)
          /\ DictKeys(manager_results') \subseteq DictKeys(manager_results) \cup {pc}
          /\ \A k \in DictKeys(manager_results) \ {pc} :
                /\ k \in DictKeys(manager_results')
                /\ DictGet(manager_results', k) = DictGet(manager_results, k)
          /\ UNCHANGED << request, fanout_plan, final_recommendations >>
      ]_vars

C36_Witness ==
    /\ entry = "travel_manager"
    /\ pc = "online_search"
    /\ StoredBy("travel_manager")
    /\ completed_nodes = <<"travel_manager">>
    /\ DictKeys(manager_results) = {"general_manager", "travel_manager"}
    /\ request # None
    /\ DictGet(manager_results, "general_manager")
         = DictGet(HandlerResults(<<"general_manager">>, Val(request)), "general_manager")
    /\ fanout_plan = None /\ final_recommendations = None

\* a step taken by the summary stage
SummaryStep == pc = "summary"

\* the final recommendation carries the data of the candidate
CopyOf(final, candidate) ==
    /\ final.card_id = candidate.card_id
    /\ final.card_name = candidate.card_name
    /\ final.card_type = candidate.card_type
    /\ final.annual_fee = candidate.annual_fee

\* C37: the summary stage leaves manager_results and every candidate stored
\* in it unchanged; the candidates are copied into the final
\* recommendations, one final recommendation per stored candidate.
C37_SummaryLeavesCandidates ==
    [][ SummaryStep =>
          /\ manager_results' = manager_results
          /\ final_recommendations' # None =>
               LET finals == Val(final_recommendations').final_recommendations
                   stored == aggregate_manager_results(manager_results')
               IN  /\ Len(finals) = Len(stored)
                   /\ \A i \in 1..Len(finals) :
                         \E j \in 1..Len(stored) : CopyOf(finals[i], stored[j])
                   /\ \A j \in 1..Len(stored) :
                         \E i \in 1..Len(finals) : CopyOf(finals[i], stored[j])
      ]_vars

C37_Witness ==
    /\ entry = "summary"
    /\ pc = END
    /\ manager_results \in PresetResultMaps
    /\ final_recommendations # None
    /\ Len(Val(final_recommendations).final_recommendations) = 2
    /\ Val(final_recommendations).final_recommendations[1].card_id = "cashback_001"
    /\ manager_results[1][2].recommendations[1].card_id = "travel_001"
    /\ manager_results[1][2].recommendations[1].match_score = Score087

\* the list holds no two results with the same (source, title)
NoDuplicateKeys(results) ==
    \A i, j \in 1..Len(results) : result_key(results[i]) = result_key(results[j]) => i = j

\* the list is in non-increasing order of relevance
NonIncreasingRelevance(results) ==
    \A i \in 1..(Len(results) - 1) :
        fl_le(results[i + 1].relevance_score, results[i].relevance_score)

\* each result of the list has the highest relevance collected for its key
KeepsHighest(results, collected) ==
    \A i \in 1..Len(results) : \A j \in 1..Len(collected) :
        result_key(collected[j]) = result_key(results[i]) =>
            fl_le(collected[j].relevance_score, results[i].relevance_score)

\* C38: the combined search results stored by search augmentation hold at
\* most 8 entries, no two with the same (source, title), are non-increasing
\* in relevance, and keep for each (source, title) the entry with the highest
\* relevance among all collected results.
C38_CombinedResultsStored ==
    Completed("online_search") =>
        /\ "online_search_results" \in DictKeys(extra_attrs)
        /\ LET stored == DictGet(extra_attrs, "online_search_results").combined_results
           IN  /\ Len(stored) <= 8
               /\ NoDuplicateKeys(stored)
               /\ NonIncreasingRelevance(stored)
               /\ KeepsHighest(stored, all_search_results(user_query, manager_results))

\* the score lies in [0, 1]
InUnitInterval(score) == fl_le(Zero, score) /\ fl_le(score, One)

\* C39: every match score produced by a category handler (the base weighted
\* sum plus the handler's bonus terms) and every aggregate score produced by
\* the summary stage lies in [0, 1].
C39_ScoresInUnitInterval ==
    /\ \A m \in Managers : StoredBy(m) =>
          \A i \in 1..Len(DictGet(manager_results, m).recommendations) :
              InUnitInterval(DictGet(manager_results, m).recommendations[i].match_score)
    /\ final_recommendations # None =>
          \A i \in 1..Len(Val(final_recommendations).final_recommendations) :
              InUnitInterval(Val(final_recommendations).final_recommendations[i].overall_score)

\* a student card whose score with the bonus terms is above 1.0 before the
\* cap, and a final recommendation whose boost is cut off at 1.0
C39_Witness ==
    /\ pc = END
    /\ StoredBy("student_manager")
    /\ request # None
    /\ DictGet(manager_results, "student_manager").recommendations # <<>>
    /\ LET rec == DictGet(manager_results, "student_manager").recommendations[1]
       IN  /\ rec.card_id = "student_001"
           /\ fl_lt(One, _calculate_match_score_Uncapped("student_manager", student_001,
                                                         Val(request)))
           /\ rec.match_score = One
    /\ final_recommendations # None
    /\ Val(final_recommendations).final_recommendations # <<>>
    /\ Val(final_recommendations).final_recommendations[1].overall_score = One

\* the extractor returns its state in this step: the extraction succeeded
ExtractorSucceeds == pc = "extractor" /\ pc' \notin {"extractor", NodeRaised}

\* C40: a successful extraction sets request, appends exactly one
\* extractor.ok event to the telemetry event log, appends extractor to
\* completed_nodes, and adds no record to errors: the step in which the
\* extractor returns does all of this, and the part of the node before the
\* awaited collaborator call changes none of the four.
C40_SuccessfulExtractionEffects ==
    [][ /\ ExtractorSucceeds =>
              /\ request' # None
              /\ telemetry' = Append(telemetry, "extractor.ok")
              /\ completed_nodes' = Append(completed_nodes, "extractor")
              /\ errors' = errors
        /\ (pc = "extractor" /\ pc' = "extractor") =>
              UNCHANGED << request, telemetry, completed_nodes, errors >>
      ]_vars

C40_Witness ==
    /\ Pipeline
    /\ pc = "router"
    /\ collab.llm = "dict"
    /\ request # None
    /\ telemetry = <<"extractor.ok">>
    /\ completed_nodes = <<"extractor">>
    /\ errors = <<>>

====
